---- MODULE Spec2Model ----
(***************************************************************************)
(* A model of the Tol compiler pipeline (wrkean/tol): the lexer with       *)
(* automatic semicolon inference, the recursive-descent / Pratt parser,    *)
(* the semantic analyzer, the C code generator, the functions of TolType   *)
(* and the compile() driver.                                               *)
(*                                                                         *)
(* Conventions.  A Rust String is a sequence of one-character strings in   *)
(* the lexer (all modelled characters are ASCII, so byte offsets equal     *)
(* character offsets), a TLA+ string in the parser and the analyzer, and   *)
(* a sequence of TLA+ strings in the code generator.                       *)
(* Rust's 0-based index i of a Vec or String is element i + 1 here.        *)
(* Option<T> is [some |-> FALSE] or [some |-> TRUE, v |-> x].              *)
(* Result<T, CompilerError> is a record [res, ...] with res one of "Ok",   *)
(* "Err" and "Panic" (a Rust panic!, todo!, unreachable! or an index out   *)
(* of bounds, which aborts the process).                                   *)
(***************************************************************************)
EXTENDS Integers, Sequences, FiniteSets, TLC

VARIABLES
    \* ---- Module (src/src/parser/module.rs)
    source_code,            \* Module.source_code
    tokens,                 \* Module.tokens
    ast,                    \* Module.ast
    symbol_table,           \* Module.symbol_table
    type_table,             \* Module.type_table
    inferred_types,         \* Module.inferred_types
    declared_array_types,   \* Module.declared_array_types
    \* ---- Lexer (src/src/lexer/mod.rs)
    start, current, line, column, start_column,
    lexer_has_error,        \* Lexer.has_error
    lexer_pc,               \* "lexing" while lex() runs, "done" once it returned
    \* ---- Parser (src/src/parser/mod.rs)
    parser_current,         \* Parser.current
    ast_id,                 \* Parser.ast_id
    parser_has_error,       \* Parser.has_error
    parser_shown,           \* number of diagnostics parse() displayed so far
    parser_pc,              \* "idle", "parsing", "done", "panic"
    \* ---- SemanticAnalyzer (src/src/semantic_analyzer/mod.rs)
    analyzer_has_error,     \* SemanticAnalyzer.has_error
    current_func_return_type,
    analyzer_shown,         \* number of diagnostics analyze() displayed so far
    analyzer_pc,            \* "idle", "pass1", "pass2", "done", "panic"
    analyzer_i,             \* index of the statement the current pass is at
    last,                   \* what the last analyzer step did (observation only)
    \* ---- compile() (src/src/lib.rs)
    should_compile,         \* the local of that name
    driver_pc,              \* position in compile()
    stages,                 \* the stages that have completed, in order
    output,                 \* CodeGenerator.output once generate() returned
    \* ---- the pure functions of TolType (src/src/toltype/mod.rs)
    probe                   \* the arguments of a call and what it returned

vars == <<source_code, tokens, ast, symbol_table, type_table, inferred_types,
          declared_array_types, start, current, line, column, start_column,
          lexer_has_error, lexer_pc, parser_current, ast_id, parser_has_error,
          parser_shown, parser_pc, analyzer_has_error, current_func_return_type,
          analyzer_shown, analyzer_pc, analyzer_i, last, should_compile, driver_pc, stages,
          output, probe>>

\* the fields of Module the lexer leaves alone
restOfModule == <<ast, symbol_table, type_table, inferred_types, declared_array_types>>
lexerVars == <<start, current, line, column, start_column, lexer_has_error, lexer_pc>>
parserVars == <<parser_current, ast_id, parser_has_error, parser_shown, parser_pc>>
analyzerVars == <<analyzer_has_error, current_func_return_type, analyzer_shown,
                  analyzer_pc, analyzer_i, last>>
driverVars == <<should_compile, driver_pc, stages, output, probe>>

None == [some |-> FALSE]
Some(x) == [some |-> TRUE, v |-> x]

Last(s) == s[Len(s)]

EmptyMap == [x \in {} |-> x]

(***************************************************************************)
(*                                 LEXER                                   *)
(***************************************************************************)

\* Longest source text the lexer is run on.
MaxSrcLen == 4

NL == "\n"

\* The characters source texts are drawn from.
Alphabet == {"a", "b", "1", "_", ".", "\"", "\\", NL, " ", "/", ")"}

\* whole modules, longer than MaxSrcLen: `bagay c{}` and `paraan f(){ang=1;}`
LongSources ==
    { <<"b", "a", "g", "a", "y", " ", "c", "{", "}">>,
      <<"p", "a", "r", "a", "a", "n", " ", "f", "(", ")", "{",
        "a", "n", "g", "=", "1", ";", "}">> }

\* the characters of the sources
Chars == Alphabet \cup UNION {{s[i] : i \in 1..Len(s)} : s \in LongSources}

RECURSIVE SeqsUpTo(_, _)
SeqsUpTo(S, n) ==
    IF n = 0 THEN {<<>>}
    ELSE LET shorter == SeqsUpTo(S, n - 1)
         IN  shorter \cup {Append(s, c) : s \in {t \in shorter : Len(t) = n - 1}, c \in S}

\* the String of a sequence of characters
RECURSIVE Str(_)
Str(chars) == IF chars = <<>> THEN "" ELSE Head(chars) \o Str(Tail(chars))

\* Token::new; a lexeme is a string
Token(lexeme, kind, ln, col) ==
    [lexeme |-> lexeme, kind |-> kind, line |-> ln, column |-> col]

\* char::is_whitespace, on the ASCII range
IsWhitespace(c) == c \in {" ", "\t", "\r", NL}

IsAsciiDigit(c) == c \in {"0", "1", "2", "3", "4", "5", "6", "7", "8", "9"}

\* unicode_ident::is_xid_start, on the ASCII range
is_identifier_start(c) ==
    c \in {"a", "b", "c", "d", "e", "f", "g", "h", "i", "j", "k", "l", "m",
           "n", "o", "p", "q", "r", "s", "t", "u", "v", "w", "x", "y", "z",
           "A", "B", "C", "D", "E", "F", "G", "H", "I", "J", "K", "L", "M",
           "N", "O", "P", "Q", "R", "S", "T", "U", "V", "W", "X", "Y", "Z"}

\* unicode_ident::is_xid_continue, on the ASCII range
is_identifier_continue(c) ==
    is_identifier_start(c) \/ IsAsciiDigit(c) \/ c = "_"

\* Lexer::new: the keyword map
keywords(lexeme) ==
    CASE lexeme = <<"p", "a", "r", "a", "a", "n">> -> Some("Paraan")
      [] lexeme = <<"a", "n", "g">> -> Some("Ang")
      [] lexeme = <<"m", "a", "i", "b", "a">> -> Some("Maiba")
      [] lexeme = <<"i", "b", "a", "l", "i", "k">> -> Some("Ibalik")
      [] lexeme = <<"b", "a", "g", "a", "y">> -> Some("Bagay")
      [] lexeme = <<"i", "t", "u", "p", "a", "d">> -> Some("Itupad")
      [] lexeme = <<"k", "u", "n", "g">> -> Some("Kung")
      [] lexeme = <<"k", "u", "n", "g", "d", "i">> -> Some("KungDi")
      [] lexeme = <<"k", "u", "n", "g", "w", "a", "l", "a">> -> Some("KungWala")
      [] lexeme = <<"s", "a">> -> Some("Sa")
      [] OTHER -> None

\* Lexer::is_at_end
LexerAtEnd(cur) == cur >= Len(source_code)

\* Lexer::peek at byte offset cur
LexPeek(cur) == IF cur < Len(source_code) THEN Some(source_code[cur + 1]) ELSE None

\* Lexer::peek_next at byte offset cur
LexPeekNext(cur) ==
    IF cur + 1 < Len(source_code) THEN Some(source_code[cur + 2]) ELSE None

\* Lexer::match_char: whether the character at cur is `expected`
match_char(cur, expected) == LexPeek(cur) = Some(expected)

\* &source_code[start..current]
Slice(from, to) == SubSeq(source_code, from + 1, to)

\* Lexer::add_token: the token pushed, given the lexer's position
add_token(kind, literal, st, cur, ln, scol) ==
    Token(Str(IF literal.some THEN literal.v ELSE Slice(st, cur)), kind, ln, scol)

\* The kinds after which a newline ends the statement.
InferKinds ==
    {"Identifier", "RightParen", "RightBracket", "IntLit", "FloatLit",
     "StringLit", "ByteStringLit"}

\* a kinds test that forgets identifiers
infer_semicolon_NoIdentifier(toks, ln, scol) ==
    IF Len(toks) > 0 /\ Last(toks).kind \in InferKinds \ {"Identifier"}
    THEN Append(toks, Token(";", "SemiColon", ln, scol + 1))
    ELSE toks

\* Lexer::infer_semicolon: the tokens after it ran
infer_semicolon(toks, ln, scol) ==
    IF Len(toks) > 0 /\ Last(toks).kind \in InferKinds
    THEN Append(toks, Token(";", "SemiColon", ln, scol + 1))
    ELSE toks

\* The single-character tokens of next_token
SingleKind(ch) ==
    CASE ch = "(" -> "LeftParen"
      [] ch = ")" -> "RightParen"
      [] ch = "{" -> "LeftBrace"
      [] ch = "}" -> "RightBrace"
      [] ch = "[" -> "LeftBracket"
      [] ch = "]" -> "RightBracket"
      [] ch = ";" -> "SemiColon"
      [] ch = "," -> "Comma"
      [] ch = "@" -> "At"
      [] ch = "&" -> "Amper"

SingleChars == {"(", ")", "{", "}", "[", "]", ";", ",", "@", "&"}

\* The operator arms of next_token ('/' is LexSlash): the kind and the offset
\* after the token, for the character ch consumed up to cur.
OperatorToken(ch, cur) ==
    LET two(c, k2, k1) == IF match_char(cur, c) THEN <<k2, cur + 1>> ELSE <<k1, cur>>
    IN  CASE ch = "." ->
               IF match_char(cur, ".")
               THEN IF match_char(cur + 1, "=") THEN <<"DotDotEqual", cur + 2>>
                    ELSE <<"DotDot", cur + 1>>
               ELSE <<"Dot", cur>>
          [] ch = ":" -> two(":", "ColonColon", "Colon")
          [] ch = "+" -> two("=", "PlusEqual", "Plus")
          [] ch = "-" ->
               IF match_char(cur, ">") THEN <<"ThinArrow", cur + 1>>
               ELSE two("=", "MinusEqual", "Minus")
          [] ch = "*" -> two("=", "StarEqual", "Star")
          [] ch = "%" -> two("=", "PercentEqual", "Percent")
          [] ch = "=" ->
               IF match_char(cur, "=") THEN <<"EqualEqual", cur + 1>>
               ELSE two(">", "ThickArrow", "Equal")
          [] ch = "!" -> two("=", "BangEqual", "Bang")
          [] ch = ">" -> two("=", "GreaterEqual", "Greater")
          [] ch = "<" -> two("=", "LesserEqual", "Lesser")

OperatorChars == {".", ":", "+", "-", "*", "%", "=", "!", ">", "<"}

\* the `while let Some(c) = self.peek()` loop of the `//` arm
RECURSIVE SkipComment(_)
SkipComment(cur) ==
    IF cur < Len(source_code) /\ source_code[cur + 1] # NL
    THEN SkipComment(cur + 1) ELSE cur

\* Lexer::skip_whitespace
RECURSIVE skip_whitespace(_)
skip_whitespace(cur) ==
    IF cur < Len(source_code) /\ IsWhitespace(source_code[cur + 1])
       /\ source_code[cur + 1] # NL
    THEN skip_whitespace(cur + 1) ELSE cur

\* the identifier loop of Lexer::lex_identifier
RECURSIVE SkipIdentifier(_)
SkipIdentifier(cur) ==
    IF cur < Len(source_code) /\ is_identifier_continue(source_code[cur + 1])
    THEN SkipIdentifier(cur + 1) ELSE cur

\* the digit loops of Lexer::lex_number
RECURSIVE SkipDigits(_)
SkipDigits(cur) ==
    IF cur < Len(source_code)
       /\ (IsAsciiDigit(source_code[cur + 1]) \/ source_code[cur + 1] = "_")
    THEN SkipDigits(cur + 1) ELSE cur

\* lex_number storing the literal as written
StripUnderscores_Kept(s) == s

\* with_underscores.chars().filter(|&c| c != '_')
RECURSIVE StripUnderscores(_)
StripUnderscores(s) ==
    IF s = <<>> THEN <<>>
    ELSE IF s[1] = "_" THEN StripUnderscores(Tail(s))
         ELSE <<s[1]>> \o StripUnderscores(Tail(s))

\* Lexer::lex_number from offset cur (the first digit is consumed):
\* the kind, the stored lexeme and the offset after the literal
lex_number(st, cur) ==
    LET intEnd == SkipDigits(cur)
        is_float == /\ LexPeek(intEnd) = Some(".")
                    /\ LexPeekNext(intEnd).some
                    /\ IsAsciiDigit(LexPeekNext(intEnd).v)
        end == IF is_float THEN SkipDigits(intEnd + 1) ELSE intEnd
    IN  [kind |-> IF is_float THEN "FloatLit" ELSE "IntLit",
         lexeme |-> StripUnderscores(Slice(st, end)),
         cur |-> end]

\* the escape table of Lexer::lex_string
Unescape(esc) ==
    CASE esc = "n" -> NL
      [] esc = "t" -> "\t"
      [] esc = "r" -> "\r"
      [] OTHER -> esc

\* Lexer::lex_string from offset cur (the opening quote is consumed)
RECURSIVE lex_string(_, _, _, _)
lex_string(cur, ln, col, value) ==
    IF cur >= Len(source_code)
    THEN [ok |-> FALSE, cur |-> cur, line |-> ln, column |-> col, value |-> value]
    ELSE LET ch == source_code[cur + 1]
         IN  CASE ch = "\"" ->
                    [ok |-> TRUE, cur |-> cur + 1, line |-> ln, column |-> col + 1,
                     value |-> value]
               [] ch = NL ->
                    lex_string(cur + 1, ln + 1, 2, Append(value, NL))
               [] ch = "\\" ->
                    IF cur + 1 < Len(source_code)
                    THEN lex_string(cur + 2, ln, col + 2,
                                    Append(value, Unescape(source_code[cur + 2])))
                    ELSE [ok |-> FALSE, cur |-> cur + 1, line |-> ln,
                          column |-> col + 1, value |-> value]
               [] OTHER ->
                    lex_string(cur + 1, ln, col + 1, Append(value, ch))

LexerInit ==
    /\ start = 0 /\ current = 0 /\ line = 1 /\ column = 1 /\ start_column = 1
    /\ lexer_has_error = FALSE
    /\ lexer_pc = "lexing"

\* One iteration of the loop of Lexer::lex: the head of next_token.
LexHead(ch) ==
    /\ lexer_pc = "lexing"
    /\ ~LexerAtEnd(current)
    /\ ch = source_code[current + 1]
    /\ start' = current
    /\ start_column' = column
    /\ UNCHANGED <<source_code, lexer_pc>>
    /\ UNCHANGED <<restOfModule, parserVars, analyzerVars, driverVars>>

\* next_token: '(' ')' '{' '}' '[' ']' ';' ',' '@' '&'
LexSingle ==
    \E ch \in SingleChars \cap Chars :
        /\ LexHead(ch)
        /\ current' = current + 1
        /\ column' = column + 1
        /\ tokens' = Append(tokens,
               add_token(SingleKind(ch), None, current, current + 1, line, column))
        /\ UNCHANGED <<line, lexer_has_error>>

\* next_token: the one-, two- and three-character operators other than '/'
LexOperator ==
    \E ch \in OperatorChars \cap Chars :
        /\ LexHead(ch)
        /\ LET op == OperatorToken(ch, current + 1)
           IN  /\ current' = op[2]
               /\ column' = column + (op[2] - current)
               /\ tokens' = Append(tokens,
                      add_token(op[1], None, current, op[2], line, column))
        /\ UNCHANGED <<line, lexer_has_error>>

\* next_token: '/', which is `/=`, a `//` comment or `/`
LexSlash ==
    /\ LexHead("/")
    /\ IF match_char(current + 1, "=")
       THEN /\ current' = current + 2
            /\ tokens' = Append(tokens,
                   add_token("SlashEqual", None, current, current + 2, line, column))
       ELSE IF match_char(current + 1, "/")
       THEN /\ current' = SkipComment(current + 2)
            /\ tokens' = tokens
       ELSE /\ current' = current + 1
            /\ tokens' = Append(tokens,
                   add_token("Slash", None, current, current + 1, line, column))
    /\ column' = column + (current' - current)
    /\ UNCHANGED <<line, lexer_has_error>>

\* next_token: whitespace other than a newline
LexWhitespace ==
    \E ch \in {c \in Chars : IsWhitespace(c) /\ c # NL} :
        /\ LexHead(ch)
        /\ current' = skip_whitespace(current + 1)
        /\ column' = column + (current' - current)
        /\ UNCHANGED <<tokens, line, lexer_has_error>>

\* next_token: '\n'
LexNewline ==
    /\ LexHead(NL)
    /\ current' = current + 1
    /\ tokens' = infer_semicolon(tokens, line, column)
    /\ line' = line + 1
    /\ column' = 1
    /\ UNCHANGED lexer_has_error

\* next_token: '"', and 'b' followed by '"'
LexString ==
    \E byte \in BOOLEAN :
        /\ IF byte THEN LexHead("b") /\ match_char(current + 1, "\"")
                   ELSE LexHead("\"")
        /\ LET from == IF byte THEN current + 2 ELSE current + 1
               r == lex_string(from, line, column + (from - current), <<>>)
           IN  /\ current' = r.cur
               /\ line' = r.line
               /\ column' = r.column
               /\ IF r.ok
                  THEN /\ tokens' = Append(tokens,
                              add_token(IF byte THEN "ByteStringLit" ELSE "StringLit",
                                        Some(r.value), current, r.cur, r.line, column))
                       /\ UNCHANGED lexer_has_error
                  ELSE /\ tokens' = tokens
                       /\ lexer_has_error' = TRUE

\* next_token: an identifier or a keyword (Lexer::lex_identifier)
LexIdentifier ==
    \E ch \in {c \in Chars : is_identifier_start(c)} :
        /\ LexHead(ch)
        /\ ~(ch = "b" /\ match_char(current + 1, "\""))
        /\ LET end == SkipIdentifier(current + 1)
               lexeme == Slice(current, end)
               kw == keywords(lexeme)
           IN  /\ current' = end
               /\ column' = column + (end - current)
               /\ tokens' = Append(tokens,
                      add_token(IF kw.some THEN kw.v ELSE "Identifier",
                                Some(lexeme), current, end, line, column))
        /\ UNCHANGED <<line, lexer_has_error>>

\* next_token: a number (Lexer::lex_number)
LexNumber ==
    \E ch \in {c \in Chars : IsAsciiDigit(c)} :
        /\ LexHead(ch)
        /\ LET n == lex_number(current, current + 1)
           IN  /\ current' = n.cur
               /\ column' = column + (n.cur - current)
               /\ tokens' = Append(tokens,
                      add_token(n.kind, Some(n.lexeme), current, n.cur, line, column))
        /\ UNCHANGED <<line, lexer_has_error>>

\* next_token: any other character is reported and skipped
LexInvalid ==
    \E ch \in Chars :
        /\ LexHead(ch)
        /\ ch \notin SingleChars \cup OperatorChars \cup {"/", "\"", NL}
        /\ ~IsWhitespace(ch) /\ ~is_identifier_start(ch) /\ ~IsAsciiDigit(ch)
        /\ current' = current + 1
        /\ column' = column + 1
        /\ lexer_has_error' = TRUE
        /\ UNCHANGED <<tokens, line>>

\* the test for a trailing Eof inverted
LexFinish_Inverted ==
    /\ lexer_pc = "lexing"
    /\ LexerAtEnd(current)
    /\ tokens' = IF Len(tokens) > 0 /\ Last(tokens).kind # "Eof"
                 THEN tokens
                 ELSE Append(tokens,
                          add_token("Eof", Some(<<"E", "o", "f">>), start, current,
                                    line, start_column))
    /\ lexer_pc' = "done"
    /\ UNCHANGED <<source_code, start, current, line, column, start_column,
                   lexer_has_error>>
    /\ UNCHANGED <<restOfModule, parserVars, analyzerVars, driverVars>>

\* Lexer::lex after its loop: the Eof token
LexFinish ==
    /\ lexer_pc = "lexing"
    /\ LexerAtEnd(current)
    /\ tokens' = IF Len(tokens) > 0 /\ Last(tokens).kind = "Eof"
                 THEN tokens
                 ELSE Append(tokens,
                          add_token("Eof", Some(<<"E", "o", "f">>), start, current,
                                    line, start_column))
    /\ lexer_pc' = "done"
    /\ UNCHANGED <<source_code, start, current, line, column, start_column,
                   lexer_has_error>>
    /\ UNCHANGED <<restOfModule, parserVars, analyzerVars, driverVars>>

(***************************************************************************)
(*                            TolType, Symbol                              *)
(***************************************************************************)

Prim(k) == [k |-> k]
Bagay(name) == [k |-> "Bagay", name |-> name]
UnknownIdentifier(name) == [k |-> "UnknownIdentifier", name |-> name]
Array(elem, len) == [k |-> "Array", elem |-> elem, len |-> len]
Pointer(t) == [k |-> "Pointer", of |-> t]
MutablePointer(t) == [k |-> "MutablePointer", of |-> t]

\* TolType::is_integer
is_integer(t) ==
    t.k \in {"I8", "I16", "I32", "I64", "ISukat", "U8", "U16", "U32", "U64",
             "USukat", "UnsizedInt"}

\* TolType::is_float
is_float(t) == t.k \in {"Lutang", "DobleTang", "UnsizedFloat"}

\* TolType::is_arithmetic_compatible
is_arithmetic_compatible(t, other) ==
    (is_integer(t) /\ is_integer(other)) \/ (is_float(t) /\ is_float(other))

\* TolType::is_assignment_compatible: self is the right-hand type, other the
\* target.  "Ok", or the error it returns.
RECURSIVE is_assignment_compatible(_, _)
is_assignment_compatible(t, other) ==
    IF t = other THEN "Ok"
    ELSE IF t.k \in {"UnsizedInt", "UnsizedFloat"}
            /\ (is_integer(other) \/ is_float(other)) THEN "Ok"
    ELSE IF /\ t.k \in {"Bagay", "UnknownIdentifier"}
            /\ other.k \in {"Bagay", "UnknownIdentifier"}
            /\ t.k # other.k /\ t.name = other.name THEN "Ok"
    ELSE IF t.k = "Array" /\ other.k = "Array"
    THEN LET inner == is_assignment_compatible(t.elem, other.elem)
         IN  IF inner # "Ok" THEN inner
             ELSE IF other.len.some /\ t.len.some /\ other.len.v < t.len.v
                  THEN "TooSmall"
             ELSE IF ~other.len.some /\ t.len = Some(0) THEN "EmptyUnsized"
             ELSE "Ok"
    ELSE "Incompatible"

\* TolType::as_c: Some(the C name), or None where it panics
RECURSIVE as_c(_)
as_c(t) ==
    CASE t.k = "I8" -> Some("int8_t")
      [] t.k = "I16" -> Some("int16_t")
      [] t.k = "I32" -> Some("int32_t")
      [] t.k = "I64" -> Some("int64_t")
      [] t.k = "ISukat" -> Some("ptrdiff_t")
      [] t.k = "U8" -> Some("uint8_t")
      [] t.k = "U16" -> Some("uint16_t")
      [] t.k = "U32" -> Some("uint32_t")
      [] t.k = "U64" -> Some("uint64_t")
      [] t.k = "USukat" -> Some("size_t")
      [] t.k = "Lutang" -> Some("float")
      [] t.k = "DobleTang" -> Some("double")
      [] t.k = "Bool" -> Some("bool")
      [] t.k = "Kar" -> Some("char")
      [] t.k = "Wala" -> Some("void")
      [] t.k = "Bagay" -> Some(t.name)
      [] t.k = "UnknownIdentifier" -> Some(t.name)
      [] t.k = "Array" -> as_c(t.elem)
      [] OTHER -> None

\* impl fmt::Display for TolType
RECURSIVE fmt(_)
fmt(t) ==
    CASE t.k = "I8" -> "i8"
      [] t.k = "I16" -> "i16"
      [] t.k = "I32" -> "i32"
      [] t.k = "I64" -> "i64"
      [] t.k = "ISukat" -> "isukat"
      [] t.k = "U8" -> "u8"
      [] t.k = "U16" -> "u16"
      [] t.k = "U32" -> "u32"
      [] t.k = "U64" -> "u64"
      [] t.k = "USukat" -> "usukat"
      [] t.k = "Lutang" -> "lutang"
      [] t.k = "DobleTang" -> "dobletang"
      [] t.k = "Bool" -> "bool"
      [] t.k = "Kar" -> "kar"
      [] t.k = "Wala" -> "wala"
      [] t.k = "UnsizedInt" -> "literal na integer"
      [] t.k = "UnsizedFloat" -> "literal na lutang"
      [] t.k = "Bagay" -> t.name
      [] t.k = "UnknownIdentifier" -> t.name
      [] t.k = "Array" -> "[" \o fmt(t.elem) \o "]"
      [] OTHER -> "<hindi_tipo>"

Var(name, mutable, tol_type) ==
    [k |-> "Var", name |-> name, mutable |-> mutable, tol_type |-> tol_type]
Paraan(name, param_types, return_type) ==
    [k |-> "Paraan", name |-> name, param_types |-> param_types,
     return_type |-> return_type]
Method(is_static, name, param_types, return_type) ==
    [k |-> "Method", is_static |-> is_static, name |-> name,
     param_types |-> param_types, return_type |-> return_type]
BagaySym(name) == [k |-> "Bagay", name |-> name]

\* Symbol::get_type
get_type(sym) ==
    CASE sym.k = "Var" -> sym.tol_type
      [] sym.k = "Paraan" -> sym.return_type
      [] sym.k = "Bagay" -> Bagay(sym.name)
      [] sym.k = "Method" -> sym.return_type

\* TypeInfo::new
TypeInfo(kind) == [kind |-> kind, members |-> EmptyMap, static_members |-> EmptyMap]

\* HashMap::insert
Put(m, key, val) == (key :> val) @@ m


(***************************************************************************)
(*                        SPECIFICATION: the lexer                         *)
(***************************************************************************)

\* Module::new
ModuleNew ==
    /\ tokens = <<>>
    /\ ast = <<>>
    /\ symbol_table = <<EmptyMap>>
    /\ type_table = EmptyMap
    /\ inferred_types = EmptyMap
    /\ declared_array_types = <<>>

ParserIdle ==
    /\ parser_current = 0 /\ ast_id = 0 /\ parser_has_error = FALSE
    /\ parser_shown = 0 /\ parser_pc = "idle"

AnalyzerIdle ==
    /\ analyzer_has_error = FALSE
    /\ current_func_return_type = [k |-> "Unknown"]
    /\ analyzer_shown = 0 /\ analyzer_pc = "idle" /\ analyzer_i = 0
    /\ last = [res |-> "none"]

DriverIdle ==
    /\ should_compile = FALSE /\ driver_pc = "idle" /\ stages = <<>>
    /\ output = <<>> /\ probe = [fn |-> "none"]

InitLex ==
    /\ source_code \in SeqsUpTo(Alphabet, MaxSrcLen)
    /\ ModuleNew
    /\ LexerInit
    /\ ParserIdle /\ AnalyzerIdle /\ DriverIdle

NextLex ==
    \/ LexSingle \/ LexOperator \/ LexSlash \/ LexWhitespace \/ LexNewline
    \/ LexString \/ LexIdentifier \/ LexNumber \/ LexInvalid \/ LexFinish

SpecLex == InitLex /\ [][NextLex]_vars

KindsOf(toks) == [i \in 1..Len(toks) |-> toks[i].kind]

\* C1: once Lexer::lex has returned, the token stream holds exactly one Eof
\* token, and it is the last token.
C1_ExactlyOneEofLast ==
    lexer_pc = "done" =>
        /\ Len(tokens) >= 1
        /\ tokens[Len(tokens)].kind = "Eof"
        /\ \A i \in 1..(Len(tokens) - 1) : tokens[i].kind # "Eof"

C1_Witness ==
    /\ lexer_pc = "done"
    /\ KindsOf(tokens) = <<"Identifier", "Dot", "IntLit", "Eof">>

RECURSIVE Content(_, _, _, _)
Content(src, i, in, strings) ==
    IF i > Len(src) THEN ""
    ELSE IF in = "string"
    THEN IF src[i] = "\\" /\ i < Len(src)
         THEN (IF strings = "written" THEN src[i] \o src[i + 1]
               ELSE Unescape(src[i + 1]))
              \o Content(src, i + 2, "string", strings)
         ELSE (IF strings = "value" /\ src[i] = "\"" THEN "" ELSE src[i])
              \o Content(src, i + 1, IF src[i] = "\"" THEN "code" ELSE "string",
                         strings)
    ELSE IF in = "number" /\ src[i] = "_" THEN Content(src, i + 1, "number", strings)
    ELSE IF in = "number" /\ IsAsciiDigit(src[i])
    THEN src[i] \o Content(src, i + 1, "number", strings)
    ELSE IF in = "number" /\ src[i] = "." /\ i < Len(src) /\ IsAsciiDigit(src[i + 1])
    THEN src[i] \o Content(src, i + 1, "number", strings)
    ELSE IF in = "name" /\ is_identifier_continue(src[i])
    THEN src[i] \o Content(src, i + 1, "name", strings)
    ELSE IF IsWhitespace(src[i]) \/ src[i] = ";"
    THEN Content(src, i + 1, "code", strings)
    ELSE IF src[i] = "/" /\ i < Len(src) /\ src[i + 1] = "/"
    THEN IF \E j \in i..Len(src) : src[j] = NL
         THEN Content(src, (CHOOSE j \in i..Len(src) :
                               src[j] = NL /\ \A m \in i..(j - 1) : src[m] # NL),
                      "code", strings)
         ELSE ""
    ELSE IF strings = "value" /\ src[i] = "b" /\ i < Len(src) /\ src[i + 1] = "\""
    THEN Content(src, i + 2, "string", strings)
    ELSE IF strings = "value" /\ src[i] = "\""
    THEN Content(src, i + 1, "string", strings)
    ELSE src[i] \o Content(src, i + 1,
                           CASE src[i] = "\"" -> "string"
                             [] IsAsciiDigit(src[i]) -> "number"
                             [] is_identifier_start(src[i]) -> "name"
                             [] OTHER -> "code",
                           strings)

\* the lexemes of the tokens in order, without the Eof token and the `;` tokens
RECURSIVE LexemesJoined(_)
LexemesJoined(toks) ==
    IF toks = <<>> THEN ""
    ELSE (IF Head(toks).kind \in {"Eof", "SemiColon"} THEN "" ELSE Head(toks).lexeme)
         \o LexemesJoined(Tail(toks))

\* C21, as stated: for every source (lexed without a diagnostic), the
\* lexemes of the produced tokens, concatenated in order, equal the source
\* with whitespace and comments removed, up to synthesized `;` tokens and
\* underscores stripped from numeric literals.
C21_LexemesReconstituteSource ==
    (lexer_pc = "done" /\ ~lexer_has_error) =>
        LexemesJoined(tokens) = Content(source_code, 1, "code", "written")

\* C21, amended: the same, where the lexeme of a string literal is the value
\* of the literal: its characters between the quotes with every escape
\* replaced by the character it stands for, and without the `b` of a byte
\* string.
C21_LexemesReconstituteValues ==
    (lexer_pc = "done" /\ ~lexer_has_error) =>
        LexemesJoined(tokens) = Content(source_code, 1, "code", "value")

C21_Witness ==
    /\ lexer_pc = "done" /\ ~lexer_has_error
    /\ source_code = <<"\"", "\\", "a", "\"">>
    /\ tokens[1].kind = "StringLit" /\ tokens[1].lexeme = "a"

(***************************************************************************)
(*                           SemanticAnalyzer                              *)
(*                                                                         *)
(* The analyzer's methods are operators over a record `a` of what they     *)
(* mutate: st (Module.symbol_table), tt (type_table), it (inferred_types), *)
(* dat (declared_array_types), cfrt (current_func_return_type).  A method  *)
(* returns [res, a, v, err]: res is "Ok", "Err" (a CompilerError, tagged   *)
(* by err) or "Panic"; a is the state it leaves, also on an early return.  *)
(* Lexemes of the parser's and analyzer's tokens are strings.              *)
(***************************************************************************)

Ok(a, v) == [res |-> "Ok", a |-> a, v |-> v, err |-> "none"]
Err(a, e) == [res |-> "Err", a |-> a, v |-> None, err |-> e]
Panic(a) == [res |-> "Panic", a |-> a, v |-> None, err |-> "panic"]

\* the `?` operator: an Err (or a panic) of r returns at once, otherwise the
\* method goes on with r
Try(r, K(_)) == IF r.res # "Ok" THEN r ELSE K(r)

\* Option::ok_or
ok_or(a, opt, e) == IF opt.some THEN Ok(a, opt.v) ELSE Err(a, e)

\* the Result of is_assignment_compatible, given its verdict
Compatible(a, verdict) == IF verdict = "Ok" THEN Ok(a, None) ELSE Err(a, verdict)

\* HashMap::get
Get(m, key) == IF key \in DOMAIN m THEN Some(m[key]) ELSE None

\* SemanticAnalyzer::enter_scope
enter_scope(st) == Append(st, EmptyMap)

\* SemanticAnalyzer::exit_scope
exit_scope(st) == IF Len(st) = 0 THEN st ELSE SubSeq(st, 1, Len(st) - 1)

\* a declaration that refuses a name found in any scope
declare_symbol_AnyScope(st, name, symbol) ==
    IF \A i \in 1..Len(st) : name \notin DOMAIN st[i]
    THEN [ok |-> TRUE, st |-> [st EXCEPT ![Len(st)] = Put(@, name, symbol)]]
    ELSE [ok |-> FALSE, st |-> st]

\* SemanticAnalyzer::declare_symbol: ok is the bool it returns
declare_symbol(st, name, symbol) ==
    IF name \notin DOMAIN st[Len(st)]
    THEN [ok |-> TRUE, st |-> [st EXCEPT ![Len(st)] = Put(@, name, symbol)]]
    ELSE [ok |-> FALSE, st |-> st]

\* if !self.declare_symbol(..) { return Err(self.declared_in_scope_err(..)) }
Declared(a, d) ==
    IF d.ok THEN Ok([a EXCEPT !.st = d.st], None)
    ELSE Err([a EXCEPT !.st = d.st], "AlreadyDeclared")

\* SemanticAnalyzer::lookup_symbol: the scopes from the innermost outwards
lookup_symbol(st, name) ==
    LET hits == {i \in 1..Len(st) : name \in DOMAIN st[i]}
    IN  IF hits = {} THEN None
        ELSE Some(st[CHOOSE i \in hits : \A j \in hits : j <= i][name])

\* Expr::is_lvalue
is_lvalue(e) == e.k \in {"Identifier", "MemberAccess", "ScopeResolution", "Deref"}

\* SemanticAnalyzer::check_call
RECURSIVE check_call(_, _, _)
check_call(a, args, params) ==
    IF Len(args) # Len(params) THEN Err(a, "ArgCount")
    ELSE IF args = <<>> THEN Ok(a, None)
    ELSE Try(Compatible(a, is_assignment_compatible(Head(args), Head(params))),
             LAMBDA c : check_call(a, Tail(args), Tail(params)))

\* SemanticAnalyzer::resolve_expr_type
RECURSIVE resolve_expr_type(_)
resolve_expr_type(t) ==
    CASE t.k = "UnsizedInt" -> Prim("I32")
      [] t.k = "UnsizedFloat" -> Prim("DobleTang")
      [] t.k = "Array" -> Array(resolve_expr_type(t.elem), t.len)
      [] OTHER -> t

\* SemanticAnalyzer::resolve_type
resolve_type(a, type_to_resolve) ==
    IF type_to_resolve.k = "UnknownIdentifier"
    THEN IF type_to_resolve.name \in DOMAIN a.tt
         THEN Ok(a, a.tt[type_to_resolve.name].kind)
         ELSE Err(a, "InvalidType")
    ELSE Ok(a, type_to_resolve)

\* Vec::push unless Vec::contains
PushNew(v, x) == IF \E i \in 1..Len(v) : v[i] = x THEN v ELSE Append(v, x)

\* SemanticAnalyzer::declare_array_types; it panics where as_c does
RECURSIVE declare_array_types(_, _)
declare_array_types(a, array_type) ==
    IF array_type.k # "Array" THEN Ok(a, None)
    ELSE Try(declare_array_types(a, array_type.elem), LAMBDA inner :
         Try(IF as_c(array_type.elem).some
             THEN Ok(inner.a, as_c(array_type.elem).v) ELSE Panic(inner.a),
             LAMBDA inner_c :
             Ok([inner_c.a EXCEPT !.dat = PushNew(@, "TOL_Array_" \o inner_c.v)],
                None)))

\* SemanticAnalyzer::lookup_scope_resolution
RECURSIVE lookup_scope_resolution(_, _, _)
lookup_scope_resolution(a, left, field) ==
    CASE left.k = "Identifier" ->
            Try(ok_or(a, Get(a.tt, left.token.lexeme), "NotRegistered"),
                LAMBDA type_info :
                ok_or(a, Get(type_info.v.static_members, field.lexeme),
                      "NoStaticMember"))
      [] left.k = "ScopeResolution" ->
            lookup_scope_resolution(a, left.left, left.field)
      [] OTHER -> Err(a, "BadScopeLeft")

RECURSIVE analyze_expression(_, _)
RECURSIVE analyze_all(_, _)
RECURSIVE analyze_elements(_, _, _)
RECURSIVE lookup_member_access(_, _, _)
RECURSIVE lookup_lvalue(_, _)
RECURSIVE analyze_fncall(_, _)
RECURSIVE analyze_struct_expr(_, _)

\* args.iter().map(|arg| self.analyze_expression(arg)).collect(): the types,
\* or the first error
analyze_all(a, exprs) ==
    IF exprs = <<>> THEN Ok(a, <<>>)
    ELSE Try(analyze_expression(a, Head(exprs)), LAMBDA h :
         Try(analyze_all(h.a, Tail(exprs)), LAMBDA t :
         Ok(t.a, <<h.v>> \o t.v)))

\* the loop of the Expr::Array arm over the elements it checks
analyze_elements(a, elems, assumed_element_type) ==
    IF elems = <<>> THEN Ok(a, None)
    ELSE Try(analyze_expression(a, Head(elems)), LAMBDA elem_type :
         Try(Compatible(elem_type.a,
                        is_assignment_compatible(elem_type.v, assumed_element_type)),
             LAMBDA c :
         analyze_elements(c.a, Tail(elems), assumed_element_type)))

\* SemanticAnalyzer::lookup_member_access
lookup_member_access(a, left, member) ==
    Try(analyze_expression(a, left), LAMBDA left_type :
    Try(ok_or(left_type.a, Get(left_type.a.tt, fmt(left_type.v)), "TypeNotFound"),
        LAMBDA type_info :
    ok_or(type_info.a, Get(type_info.v.members, member.lexeme), "NoMember")))

\* SemanticAnalyzer::lookup_lvalue
lookup_lvalue(a, lvalue) ==
    CASE lvalue.k = "Identifier" ->
            ok_or(a, lookup_symbol(a.st, lvalue.token.lexeme), "Undeclared")
      [] lvalue.k = "MemberAccess" ->
            lookup_member_access(a, lvalue.left, lvalue.member)
      [] lvalue.k = "ScopeResolution" ->
            lookup_scope_resolution(a, lvalue.left, lvalue.field)
      [] OTHER -> Err(a, "NotCallable")

\* the mutable flag of the Var is not read
ensure_lvalue_is_mutable_Unchecked(a, lvalue) ==
    Try(lookup_lvalue(a, lvalue), LAMBDA lvalue_symbol :
        IF lvalue_symbol.v.k # "Var" THEN Panic(lvalue_symbol.a)
        ELSE Ok(lvalue_symbol.a, None))

\* SemanticAnalyzer::ensure_lvalue_is_mutable
ensure_lvalue_is_mutable(a, lvalue) ==
    Try(lookup_lvalue(a, lvalue), LAMBDA lvalue_symbol :
        IF lvalue_symbol.v.k # "Var" THEN Panic(lvalue_symbol.a)
        ELSE IF lvalue_symbol.v.mutable THEN Ok(lvalue_symbol.a, None)
        ELSE Err(lvalue_symbol.a, "NotMutable"))

\* SemanticAnalyzer::analyze_fncall
analyze_fncall(a, fncall) ==
    Try(analyze_all(a, fncall.args), LAMBDA args :
    Try(IF fncall.callee.k = "MemberAccess"
        THEN Try(analyze_expression(args.a, fncall.callee.left), LAMBDA left_type :
                 Ok(left_type.a, <<left_type.v>> \o args.v))
        ELSE args, LAMBDA arg_types :
    Try(lookup_lvalue(arg_types.a, fncall.callee), LAMBDA callee_symbol :
        IF callee_symbol.v.k \in {"Paraan", "Method"}
        THEN Try(check_call(callee_symbol.a, arg_types.v, callee_symbol.v.param_types),
                 LAMBDA c : Ok(c.a, callee_symbol.v.return_type))
        ELSE Err(callee_symbol.a, "InvalidCallee"))))

\* the loop of analyze_struct_expr over resolved_fields; a field of the
\* expression is <<Token, Expr>>
RECURSIVE check_fields(_, _, _, _)
check_fields(a, fields, types, members) ==
    IF fields = <<>> THEN Ok(a, None)
    ELSE Try(ok_or(a, Get(members, Head(fields)[1].lexeme), "NoField"),
             LAMBDA field_symbol :
         Try(IF field_symbol.v.k = "Var"
             THEN Compatible(a, is_assignment_compatible(Head(types),
                                                         field_symbol.v.tol_type))
             ELSE Err(a, "NotField"), LAMBDA c :
         check_fields(a, Tail(fields), Tail(types), members)))

\* SemanticAnalyzer::analyze_struct_expr
analyze_struct_expr(a, struct_expr) ==
    Try(analyze_all(a, [i \in 1..Len(struct_expr.fields) |-> struct_expr.fields[i][2]]),
        LAMBDA resolved_fields :
    Try(CASE struct_expr.callee.k = "Identifier" ->
                ok_or(resolved_fields.a,
                      lookup_symbol(resolved_fields.a.st,
                                    struct_expr.callee.token.lexeme), "Undeclared")
          [] struct_expr.callee.k = "MemberAccess" ->
                lookup_member_access(resolved_fields.a, struct_expr.callee.left,
                                     struct_expr.callee.member)
          [] struct_expr.callee.k = "ScopeResolution" ->
                lookup_scope_resolution(resolved_fields.a, struct_expr.callee.left,
                                        struct_expr.callee.field)
          [] OTHER -> Err(resolved_fields.a, "NotConstructible"),
        LAMBDA callee_symbol :
        IF callee_symbol.v.k # "Bagay" THEN Err(callee_symbol.a, "NotBagay")
        ELSE IF callee_symbol.v.name \notin DOMAIN callee_symbol.a.tt
        THEN Panic(callee_symbol.a)
        ELSE Try(check_fields(callee_symbol.a, struct_expr.fields, resolved_fields.v,
                              callee_symbol.a.tt[callee_symbol.v.name].members),
                 LAMBDA c : Ok(c.a, Bagay(callee_symbol.v.name)))))

\* SemanticAnalyzer::analyze_expression, with the arms of
\* analyze_member_access and analyze_scope_resolution
analyze_expression(a, expr) ==
    CASE expr.k = "IntLit" -> Ok(a, Prim("UnsizedInt"))
      [] expr.k = "FloatLit" -> Ok(a, Prim("UnsizedFloat"))
      [] expr.k = "ByteStringLit" ->
            Ok(a, Array(Prim("U8"), Some(Len(expr.token.lexeme) + 1)))
      [] expr.k = "Identifier" ->
            Try(ok_or(a, lookup_symbol(a.st, expr.token.lexeme), "Undeclared"),
                LAMBDA s : Ok(a, get_type(s.v)))
      [] expr.k = "Binary" ->
            IF expr.op.kind \in {"Plus", "Minus", "Star", "Slash"}
            THEN Try(analyze_expression(a, expr.left), LAMBDA left_type :
                 Try(analyze_expression(left_type.a, expr.right), LAMBDA right_type :
                     IF ~is_arithmetic_compatible(left_type.v, right_type.v)
                     THEN Err(right_type.a, "BadOperands")
                     ELSE Ok(right_type.a, left_type.v)))
            ELSE Err(a, "BadOperator")
      [] expr.k = "Assign" ->
            IF ~is_lvalue(expr.left) THEN Err(a, "NotLvalue")
            ELSE Try(ensure_lvalue_is_mutable(a, expr.left), LAMBDA m :
                 Try(analyze_expression(m.a, expr.left), LAMBDA left_type :
                 Try(analyze_expression(left_type.a, expr.right), LAMBDA right_type :
                 Try(Compatible(right_type.a,
                                is_assignment_compatible(right_type.v, left_type.v)),
                     LAMBDA c : Ok(c.a, Prim("Wala"))))))
      [] expr.k = "FnCall" -> analyze_fncall(a, expr)
      [] expr.k = "MagicFnCall" ->
            Try(analyze_all(a, expr.args), LAMBDA arg_types :
            Try(ok_or(arg_types.a, lookup_symbol(arg_types.a.st, expr.name.lexeme),
                      "Undeclared"), LAMBDA sym :
                IF sym.v.k # "Paraan" THEN Err(sym.a, "NotFound")
                ELSE Try(check_call(sym.a, arg_types.v, sym.v.param_types),
                         LAMBDA c : Ok(c.a, sym.v.return_type))))
      [] expr.k = "MemberAccess" ->
            Try(lookup_member_access(a, expr.left, expr.member),
                LAMBDA sym : Ok(sym.a, get_type(sym.v)))
      [] expr.k = "ScopeResolution" ->
            Try(lookup_scope_resolution(a, expr.left, expr.field),
                LAMBDA sym : Ok(sym.a, get_type(sym.v)))
      [] expr.k = "Struct" -> analyze_struct_expr(a, expr)
      [] expr.k = "Array" ->
            IF expr.elements = <<>> THEN Panic(a)
            ELSE Try(analyze_expression(a, expr.elements[1]),
                     LAMBDA assumed_element_type :
                 Try(analyze_elements(
                         assumed_element_type.a,
                         SubSeq(expr.elements, 2, Len(expr.elements) - 1),
                         assumed_element_type.v), LAMBDA checked :
                 Ok([checked.a EXCEPT
                        !.it = Put(@, expr.id, Array(assumed_element_type.v,
                                                     Some(Len(expr.elements))))],
                    Array(assumed_element_type.v, Some(Len(expr.elements))))))
      [] expr.k \in {"RangeExclusive", "RangeInclusive"} ->
            Try(analyze_expression(a, expr.start), LAMBDA left_type :
            Try(analyze_expression(left_type.a, expr.end), LAMBDA right_type :
            Try(Compatible(right_type.a,
                           is_assignment_compatible(left_type.v, Prim("USukat"))),
                LAMBDA c1 :
            Try(Compatible(right_type.a,
                           is_assignment_compatible(right_type.v, Prim("USukat"))),
                LAMBDA c2 : Ok(c2.a, Prim("USukat"))))))
      [] expr.k = "AddressOf" ->
            IF ~is_lvalue(expr.of) THEN Err(a, "NotLvalue")
            ELSE Try(analyze_expression(a, expr.of),
                     LAMBDA of_type : Ok(of_type.a, Pointer(of_type.v)))
      [] expr.k = "MutableAddressOf" ->
            IF ~is_lvalue(expr.of) THEN Err(a, "NotLvalue")
            ELSE Try(ensure_lvalue_is_mutable(a, expr.of), LAMBDA m :
                 Try(analyze_expression(m.a, expr.of),
                     LAMBDA of_type : Ok(of_type.a, MutablePointer(of_type.v))))
      [] expr.k = "Deref" ->
            IF ~is_lvalue(expr.right) THEN Err(a, "NotLvalue")
            ELSE Try(analyze_expression(a, expr.right), LAMBDA right_type :
                     IF right_type.v.k = "Pointer"
                     THEN Ok(right_type.a, right_type.v.of)
                     ELSE Err(right_type.a, "NotPointer"))
      [] expr.k = "StringLit" -> Panic(a)

\* SemanticAnalyzer::infer_type
infer_type(a, expr, id) ==
    Try(analyze_expression(a, expr), LAMBDA expr_type :
        Ok([expr_type.a EXCEPT !.it = Put(@, id, resolve_expr_type(expr_type.v))],
           resolve_expr_type(expr_type.v)))

\* params.iter().map(|(tok, ty)| ..resolve_type(ty)..).collect(): the pairs
\* <<Token, TolType>> resolved, or the first error; in analyze_method ako is
\* Some(itupad_for), what a parameter of type AkoType resolves to
RECURSIVE resolve_params(_, _, _)
resolve_params(a, params, ako) ==
    IF params = <<>> THEN Ok(a, <<>>)
    ELSE Try(IF ako.some /\ Head(params)[2].k = "AkoType"
             THEN Ok(a, ako.v)
             ELSE resolve_type(a, Head(params)[2]), LAMBDA resolved_ty :
         Try(resolve_params(a, Tail(params), ako), LAMBDA rest :
         Ok(a, <<<<Head(params)[1], resolved_ty.v>>>> \o rest.v)))

\* resolved_params.iter().map(|(_, ty)| ty.clone()).collect()
param_types(resolved_params) ==
    [i \in 1..Len(resolved_params) |-> resolved_params[i][2]]

\* the loops declaring a parameter or field list as immutable Vars: ok is
\* FALSE at the first name the scope already has
RECURSIVE declare_vars(_, _)
declare_vars(st, resolved) ==
    IF resolved = <<>> THEN [ok |-> TRUE, st |-> st]
    ELSE IF Head(resolved)[1].lexeme \in DOMAIN st[Len(st)]
    THEN [ok |-> FALSE, st |-> st]
    ELSE declare_vars(
             declare_symbol(st, Head(resolved)[1].lexeme,
                            Var(Head(resolved)[1].lexeme, FALSE, Head(resolved)[2])).st,
             Tail(resolved))

\* SemanticAnalyzer::analyze_ang
analyze_ang(a, s) ==
    Try(IF s.ang_type.k = "Unknown"
        THEN infer_type(a, s.rhs, s.id)
        ELSE resolve_type(a, s.ang_type), LAMBDA ang_type :
    Try(declare_array_types(ang_type.a, ang_type.v), LAMBDA arrays :
    Try(analyze_expression(arrays.a, s.rhs), LAMBDA rhs_type :
    Try(Compatible(rhs_type.a, is_assignment_compatible(rhs_type.v, ang_type.v)),
        LAMBDA c :
    Declared(c.a, declare_symbol(c.a.st, s.ang_identifier.lexeme,
                                 Var(s.ang_identifier.lexeme, s.mutable,
                                     ang_type.v)))))))

\* SemanticAnalyzer::analyze_ibalik
analyze_ibalik(a, s) ==
    Try(analyze_expression(a, s.rhs), LAMBDA return_type :
        IF return_type.a.cfrt = Prim("Unknown")
        THEN Err(return_type.a, "OutsideFunction")
        ELSE Compatible(return_type.a,
                        is_assignment_compatible(return_type.v, return_type.a.cfrt)))

\* the last loop of analyze_bagay: the fields go into the type's members
RECURSIVE store_fields(_, _, _)
store_fields(a, bagay_name, resolved_fields) ==
    IF resolved_fields = <<>> THEN Ok(a, None)
    ELSE IF Head(resolved_fields)[2] = Bagay(bagay_name)
    THEN Err(a, "SelfContained")
    ELSE store_fields(
             [a EXCEPT !.tt[bagay_name].members =
                 Put(@, Head(resolved_fields)[1].lexeme,
                     Var(Head(resolved_fields)[1].lexeme, FALSE,
                         Head(resolved_fields)[2]))],
             bagay_name, Tail(resolved_fields))

\* SemanticAnalyzer::analyze_bagay
analyze_bagay(a, s) ==
    Try(Declared(a, declare_symbol(a.st, s.bagay_identifier.lexeme,
                                   BagaySym(s.bagay_identifier.lexeme))), LAMBDA d :
        IF s.bagay_identifier.lexeme \in DOMAIN d.a.tt THEN Err(d.a, "TypeExists")
        ELSE Try(resolve_params(
                     [d.a EXCEPT !.tt = Put(@, s.bagay_identifier.lexeme,
                                            TypeInfo(Bagay(s.bagay_identifier.lexeme)))],
                     s.fields, None), LAMBDA resolved_fields :
             \* enter_scope, the fields, exit_scope on either path
             IF ~declare_vars(enter_scope(resolved_fields.a.st), resolved_fields.v).ok
             THEN Err(resolved_fields.a, "AlreadyDeclared")
             ELSE store_fields(resolved_fields.a, s.bagay_identifier.lexeme,
                               resolved_fields.v)))

RECURSIVE analyze_stmt(_, _)
RECURSIVE analyze_stmts(_, _)
RECURSIVE analyze_methods(_, _, _)
RECURSIVE analyze_kung(_, _)

\* for statement in statements { self.analyze_stmt(statement)?; }
analyze_stmts(a, statements) ==
    IF statements = <<>> THEN Ok(a, None)
    ELSE Try(analyze_stmt(a, Head(statements)),
             LAMBDA h : analyze_stmts(h.a, Tail(statements)))

\* SemanticAnalyzer::analyze_block
analyze_block(a, statements) ==
    Try(analyze_stmts([a EXCEPT !.st = enter_scope(@)], statements),
        LAMBDA r : Ok([r.a EXCEPT !.st = exit_scope(@)], None))

\* SemanticAnalyzer::analyze_par
analyze_par(a, s) ==
    Try(resolve_params(a, s.params, None), LAMBDA resolved_params :
    Try(resolve_type(a, s.return_type), LAMBDA resolved_return :
    Try(Declared(a, declare_symbol(
                        a.st, s.par_identifier.lexeme,
                        Paraan(s.par_identifier.lexeme,
                               param_types(resolved_params.v), resolved_return.v))),
        LAMBDA d :
    Try(Declared(d.a, declare_vars(enter_scope(d.a.st), resolved_params.v)),
        LAMBDA scoped :
    Try(analyze_stmt([scoped.a EXCEPT !.cfrt = resolved_return.v], s.block),
        LAMBDA body :
    Ok([body.a EXCEPT !.st = exit_scope(@)], None))))))

\* SemanticAnalyzer::analyze_method: v is the Symbol::Method
analyze_method(a, itupad_for, m) ==
    Try(resolve_params(a, m.params, Some(itupad_for)), LAMBDA resolved_params :
    Try(Declared(a, declare_symbol(
                        a.st, m.met_identifier.lexeme,
                        Method(m.is_static, m.met_identifier.lexeme,
                               param_types(resolved_params.v), m.return_type))),
        LAMBDA d :
    Try(Declared(d.a, declare_vars(enter_scope(d.a.st), resolved_params.v)),
        LAMBDA scoped :
    Try(analyze_stmt([scoped.a EXCEPT !.cfrt = m.return_type], m.block),
        LAMBDA body :
    Ok([body.a EXCEPT !.st = exit_scope(@)],
       Method(m.is_static, m.met_identifier.lexeme,
              param_types(resolved_params.v), m.return_type))))))

\* the loop of analyze_itupad over the Stmt::Method items of the block: v is
\* analyzed_methods
analyze_methods(a, itupad_for, methods) ==
    IF methods = <<>> THEN Ok(a, <<>>)
    ELSE IF Head(methods).k # "Method"
    THEN analyze_methods(a, itupad_for, Tail(methods))
    ELSE Try(analyze_method(a, itupad_for, Head(methods)), LAMBDA h :
         Try(analyze_methods(h.a, itupad_for, Tail(methods)), LAMBDA t :
         Ok(t.a, <<h.v>> \o t.v)))

\* the last loop of analyze_itupad: the methods go into the type's members
\* or static_members
RECURSIVE insert_methods(_, _, _)
insert_methods(a, key, analyzed_methods) ==
    IF analyzed_methods = <<>> THEN Ok(a, None)
    ELSE LET met_sym == Head(analyzed_methods)
             insert_to == IF met_sym.is_static THEN "static_members" ELSE "members"
         IN  IF met_sym.name \in DOMAIN a.tt[key][insert_to]
             THEN Err(a, "MethodExists")
             ELSE insert_methods(
                      [a EXCEPT !.tt[key][insert_to] = Put(@, met_sym.name, met_sym)],
                      key, Tail(analyzed_methods))

\* SemanticAnalyzer::analyze_itupad
analyze_itupad(a, s) ==
    Try(resolve_type([a EXCEPT !.st = enter_scope(@)], s.itupad_for),
        LAMBDA itupad_for :
    Try(IF s.itupad_block.k = "ItupadBlock"
        THEN analyze_methods(itupad_for.a, itupad_for.v, s.itupad_block.methods)
        ELSE Ok(itupad_for.a, <<>>), LAMBDA analyzed_methods :
        IF fmt(itupad_for.v) \notin DOMAIN analyzed_methods.a.tt
        THEN Err(analyzed_methods.a, "TypeNotDeclared")
        ELSE insert_methods(analyzed_methods.a, fmt(itupad_for.v),
                            analyzed_methods.v)))

\* SemanticAnalyzer::analyze_kung; a branch is [condition: Option, block]
analyze_kung(a, branches) ==
    IF branches = <<>> THEN Ok(a, None)
    ELSE Try(IF Head(branches).condition.some
             THEN analyze_expression(a, Head(branches).condition.v)
             ELSE Ok(a, None), LAMBDA c :
         Try(analyze_stmt(c.a, Head(branches).block), LAMBDA b :
         analyze_kung(b.a, Tail(branches))))

\* SemanticAnalyzer::analyze_sa
analyze_sa(a, s) ==
    Try(infer_type([a EXCEPT !.st = enter_scope(@)], s.iterator, s.id),
        LAMBDA bind_type :
    Try(Declared(bind_type.a,
                 declare_symbol(bind_type.a.st, s.bind.lexeme,
                                Var(s.bind.lexeme, FALSE, bind_type.v))), LAMBDA d :
    Try(analyze_stmt(d.a, s.block), LAMBDA body :
    Ok([body.a EXCEPT !.st = exit_scope(@)], None))))

\* SemanticAnalyzer::analyze_stmt
analyze_stmt(a, stmt) ==
    CASE stmt.k = "Ang" -> analyze_ang(a, stmt)
      [] stmt.k = "Par" -> analyze_par(a, stmt)
      [] stmt.k = "Ibalik" -> analyze_ibalik(a, stmt)
      [] stmt.k = "ExprS" ->
            Try(analyze_expression(a, stmt.expr), LAMBDA e : Ok(e.a, None))
      [] stmt.k = "Bagay" -> analyze_bagay(a, stmt)
      [] stmt.k = "Itupad" -> analyze_itupad(a, stmt)
      [] stmt.k = "Kung" -> analyze_kung(a, stmt.branches)
      [] stmt.k = "Sa" -> analyze_sa(a, stmt)
      [] stmt.k = "Block" -> analyze_block(a, stmt.statements)
      [] stmt.k \in {"ItupadBlock", "Method"} -> Ok(a, None)

(***************************************************************************)
(*                      SPECIFICATION: the analyzer                        *)
(*                                                                         *)
(* analyze() over a parsed module.  The module's statements are drawn from *)
(* a pool of statements as the parser builds them; every pool statement    *)
(* carries its own ids, so the ids of a program are distinct.              *)
(***************************************************************************)

MaxStmts == 2

Ident(name) == Token(name, "Identifier", 1, 1)
IntLit(lexeme, id) == [k |-> "IntLit", token |-> Token(lexeme, "IntLit", 1, 1), id |-> id]
FloatLit(lexeme, id) ==
    [k |-> "FloatLit", token |-> Token(lexeme, "FloatLit", 1, 1), id |-> id]
Identifier(name, id) == [k |-> "Identifier", token |-> Ident(name), id |-> id]
Ang(mutable, name, ang_type, rhs, id) ==
    [k |-> "Ang", mutable |-> mutable, ang_identifier |-> Ident(name),
     ang_type |-> ang_type, rhs |-> rhs, id |-> id]
Block(statements, id) == [k |-> "Block", statements |-> statements, id |-> id]
Par(name, params, return_type, block, id) ==
    [k |-> "Par", par_identifier |-> Ident(name), params |-> params,
     return_type |-> return_type, block |-> block, id |-> id]
Ibalik(rhs, id) == [k |-> "Ibalik", rhs |-> rhs, id |-> id]
ExprS(expr, id) == [k |-> "ExprS", expr |-> expr, id |-> id]
BagayStmt(name, fields, id) ==
    [k |-> "Bagay", bagay_identifier |-> Ident(name), fields |-> fields, id |-> id]
MethodStmt(is_static, name, params, return_type, block, id) ==
    [k |-> "Method", is_static |-> is_static, met_identifier |-> Ident(name),
     params |-> params, return_type |-> return_type, block |-> block, id |-> id]
Itupad(itupad_for, methods, id) ==
    [k |-> "Itupad", itupad_for |-> itupad_for,
     itupad_block |-> [k |-> "ItupadBlock", methods |-> methods, id |-> id - 1],
     id |-> id]

\* The statements a module is made of, written in the source language:
StmtPool ==
    { \* ang x: i32 = 15.5
      Ang(FALSE, "x", Prim("I32"), FloatLit("15.5", 1), 2),
      \* ang x: i32 = 15
      Ang(FALSE, "x", Prim("I32"), IntLit("15", 3), 4),
      \* ang maiba y = 1.5
      Ang(TRUE, "y", Prim("Unknown"), FloatLit("1.5", 5), 6),
      \* ang w: Foo = 1
      Ang(FALSE, "w", UnknownIdentifier("Foo"), IntLit("1", 7), 8),
      \* ang v: []Foo = [x]
      Ang(FALSE, "v", Array(UnknownIdentifier("Foo"), None),
          [k |-> "Array", elements |-> <<Identifier("x", 9)>>, id |-> 10], 11),
      \* paraan f() i32 { ibalik 15.5 }
      Par("f", <<>>, Prim("I32"), Block(<<Ibalik(FloatLit("15.5", 12), 13)>>, 14), 15),
      \* paraan g() { }
      Par("g", <<>>, Prim("Wala"), Block(<<>>, 16), 17),
      \* paraan h(a: []Foo) { }
      Par("h", <<<<Ident("a"), Array(UnknownIdentifier("Foo"), None)>>>>,
          Prim("Wala"), Block(<<>>, 18), 19),
      \* paraan x(x: i32) { y }
      Par("x", <<<<Ident("x"), Prim("I32")>>>>, Prim("Wala"),
          Block(<<ExprS(Identifier("y", 20), 21)>>, 22), 23),
      \* ibalik 1
      Ibalik(IntLit("1", 24), 25),
      \* x
      ExprS(Identifier("x", 26), 27),
      \* { ang x = 1 }
      Block(<<Ang(FALSE, "x", Prim("Unknown"), IntLit("1", 28), 29)>>, 30),
      \* bagay A { b: B }
      BagayStmt("A", <<<<Ident("b"), UnknownIdentifier("B")>>>>, 31),
      \* bagay B { x: i32 }
      BagayStmt("B", <<<<Ident("x"), Prim("I32")>>>>, 32),
      \* bagay C { c: Foo }
      BagayStmt("C", <<<<Ident("c"), UnknownIdentifier("Foo")>>>>, 33),
      \* itupad B { paraan m(ako) Foo { } }
      Itupad(UnknownIdentifier("B"),
             <<MethodStmt(FALSE, "m", <<<<Token("ako", "Identifier", 1, 1), Prim("AkoType")>>>>,
                          UnknownIdentifier("Foo"), Block(<<>>, 34), 35)>>, 37),
      \* itupad B { paraan n() i32 { ibalik 1 } }
      Itupad(UnknownIdentifier("B"),
             <<MethodStmt(TRUE, "n", <<>>, Prim("I32"),
                          Block(<<Ibalik(IntLit("1", 38), 39)>>, 40), 41)>>, 43),
      \* kung x { } kundi { }
      [k |-> "Kung",
       branches |-> <<[condition |-> Some(Identifier("x", 44)), block |-> Block(<<>>, 45)],
                      [condition |-> None, block |-> Block(<<>>, 46)]>>,
       id |-> 47],
      \* sa i sa 0..3 { i }
      [k |-> "Sa",
       iterator |-> [k |-> "RangeExclusive", start |-> IntLit("0", 48),
                     end |-> IntLit("3", 49), id |-> 50],
       bind |-> Ident("i"),
       block |-> Block(<<ExprS(Identifier("i", 51), 52)>>, 53), id |-> 54],
      \* ang s = B!()
      Ang(FALSE, "s", Prim("Unknown"),
          [k |-> "Struct", callee |-> Identifier("B", 55), fields |-> <<>>, id |-> 56], 57),
      \* x = 1
      ExprS([k |-> "Assign", left |-> Identifier("x", 58), right |-> IntLit("1", 59),
             id |-> 60], 61),
      \* y = 2.5
      ExprS([k |-> "Assign", left |-> Identifier("y", 62), right |-> FloatLit("2.5", 63),
             id |-> 64], 65),
      \* paraan p(a: i32) { a = 1 }
      Par("p", <<<<Ident("a"), Prim("I32")>>>>, Prim("Wala"),
          Block(<<ExprS([k |-> "Assign", left |-> Identifier("a", 66),
                         right |-> IntLit("1", 67), id |-> 68], 69)>>, 70), 71),
      \* sa 0..3 => i { i = 1 }
      [k |-> "Sa",
       iterator |-> [k |-> "RangeExclusive", start |-> IntLit("0", 72),
                     end |-> IntLit("3", 73), id |-> 74],
       bind |-> Ident("i"),
       block |-> Block(<<ExprS([k |-> "Assign", left |-> Identifier("i", 75),
                                right |-> IntLit("1", 76), id |-> 77], 78)>>, 79),
       id |-> 80],
      \* ang e: []i32 = []
      Ang(FALSE, "e", Array(Prim("I32"), None),
          [k |-> "Array", elements |-> <<>>, id |-> 81], 82) }

\* the modules of up to MaxStmts distinct pool statements
Programs ==
    {p \in SeqsUpTo(StmtPool, MaxStmts) :
        \A i, j \in 1..Len(p) : i # j => p[i] # p[j]}

\* SemanticAnalyzer::declare_magic_funcs
declare_magic_funcs(st) ==
    declare_symbol(
        declare_symbol(
            declare_symbol(
                st, "print",
                Paraan("print", <<Array(Prim("U8"), None)>>, Prim("Wala"))).st,
            "println",
            Paraan("println", <<Array(Prim("U8"), None)>>, Prim("Wala"))).st,
        "alis", Paraan("alis", <<Prim("I32")>>, Prim("Wala"))).st

\* SemanticAnalyzer::declare_primitive_types
declare_primitive_types(tt) ==
    [n \in {"i8", "i16", "i32", "i64", "isukat", "u8", "u16", "u32", "u64",
            "usukat", "lutang", "dobletang", "bool", "kar"} |->
        TypeInfo(CHOOSE t \in {Prim(k) : k \in
                     {"I8", "I16", "I32", "I64", "ISukat", "U8", "U16", "U32",
                      "U64", "USukat", "Lutang", "DobleTang", "Bool", "Kar"}} :
                   fmt(t) = n)] @@ tt

\* SemanticAnalyzer::new on the module the parser left, ready to analyze()
AnalyzerNew ==
    /\ symbol_table = declare_magic_funcs(<<EmptyMap>>)
    /\ type_table = declare_primitive_types(EmptyMap)
    /\ inferred_types = EmptyMap
    /\ declared_array_types = <<>>
    /\ analyzer_has_error = FALSE
    /\ current_func_return_type = Prim("Unknown")
    /\ analyzer_shown = 0 /\ analyzer_pc = "pass1" /\ analyzer_i = 1
    /\ last = [res |-> "none"]

\* what the analyzer's methods read and write
AState ==
    [st |-> symbol_table, tt |-> type_table, it |-> inferred_types,
     dat |-> declared_array_types, cfrt |-> current_func_return_type]

\* one iteration of a loop of analyze(): r is what the statement's analysis
\* returned; unwrap_or_else displays the error and sets has_error
AnalyzeOne(stmt, r) ==
    /\ symbol_table' = r.a.st
    /\ type_table' = r.a.tt
    /\ inferred_types' = r.a.it
    /\ declared_array_types' = r.a.dat
    /\ current_func_return_type' = r.a.cfrt
    /\ analyzer_has_error' = (analyzer_has_error \/ r.res = "Err")
    /\ analyzer_shown' = analyzer_shown + (IF r.res = "Err" THEN 1 ELSE 0)
    /\ last' = [res |-> r.res, err |-> r.err, stmt |-> stmt, st |-> symbol_table,
                depth |-> Len(symbol_table), cfrt |-> current_func_return_type]
    /\ analyzer_pc' = IF r.res = "Panic" THEN "panic" ELSE analyzer_pc
    /\ analyzer_i' = analyzer_i + 1
    /\ UNCHANGED <<source_code, tokens, ast, lexerVars, parserVars, driverVars>>

SkipOne ==
    /\ analyzer_i' = analyzer_i + 1
    /\ UNCHANGED <<source_code, tokens, restOfModule, lexerVars, parserVars,
                   driverVars, analyzer_has_error, current_func_return_type,
                   analyzer_shown, analyzer_pc, last>>

\* analyze(), first loop: a Stmt::Bagay
CollectBagay ==
    /\ analyzer_pc = "pass1" /\ analyzer_i <= Len(ast)
    /\ ast[analyzer_i].k = "Bagay"
    /\ AnalyzeOne(ast[analyzer_i], analyze_bagay(AState, ast[analyzer_i]))

\* analyze(), first loop: any other statement
CollectSkip ==
    /\ analyzer_pc = "pass1" /\ analyzer_i <= Len(ast)
    /\ ast[analyzer_i].k # "Bagay"
    /\ SkipOne

\* analyze(): the first loop is over, the second starts
SecondPass ==
    /\ analyzer_pc = "pass1" /\ analyzer_i > Len(ast)
    /\ analyzer_pc' = "pass2" /\ analyzer_i' = 1
    /\ UNCHANGED <<source_code, tokens, restOfModule, lexerVars, parserVars,
                   driverVars, analyzer_has_error, current_func_return_type,
                   analyzer_shown, last>>

\* analyze(), second loop: a statement that is not a Stmt::Bagay
AnalyzeStmt ==
    /\ analyzer_pc = "pass2" /\ analyzer_i <= Len(ast)
    /\ ast[analyzer_i].k # "Bagay"
    /\ AnalyzeOne(ast[analyzer_i], analyze_stmt(AState, ast[analyzer_i]))

\* analyze(), second loop: a Stmt::Bagay
AnalyzeSkip ==
    /\ analyzer_pc = "pass2" /\ analyzer_i <= Len(ast)
    /\ ast[analyzer_i].k = "Bagay"
    /\ SkipOne

\* analyze() returns
AnalyzeReturn ==
    /\ analyzer_pc = "pass2" /\ analyzer_i > Len(ast)
    /\ analyzer_pc' = "done"
    /\ UNCHANGED <<source_code, tokens, restOfModule, lexerVars, parserVars,
                   driverVars, analyzer_has_error, current_func_return_type,
                   analyzer_shown, analyzer_i, last>>

InitSem ==
    /\ source_code = <<>> /\ tokens = <<>>
    /\ ast \in Programs
    /\ start = 0 /\ current = 0 /\ line = 1 /\ column = 1 /\ start_column = 1
    /\ lexer_has_error = FALSE /\ lexer_pc = "done"
    /\ parser_current = 0 /\ ast_id = 0 /\ parser_has_error = FALSE
    /\ parser_shown = 0 /\ parser_pc = "done"
    /\ AnalyzerNew
    /\ DriverIdle

NextSem ==
    \/ CollectBagay \/ CollectSkip \/ SecondPass
    \/ AnalyzeStmt \/ AnalyzeSkip \/ AnalyzeReturn

SpecSem == InitSem /\ [][NextSem]_vars

(***************************************************************************)
(*                     Properties of the analyzer                          *)
(***************************************************************************)

\* the last step analyzed a statement (and did not panic)
Analyzed == last.res \in {"Ok", "Err"}

\* C3: a float literal is not assignment compatible with an integer type: a
\* binding of declared integer type whose right-hand side is a float literal,
\* and a function of integer return type whose body returns a float literal,
\* are refused with a diagnostic and set has_error.
C3_FloatLiteralIntoInteger ==
    /\ ( /\ Analyzed /\ last.stmt.k = "Ang"
         /\ is_integer(last.stmt.ang_type) /\ last.stmt.rhs.k = "FloatLit" )
       => (last.res = "Err" /\ analyzer_has_error)
    /\ ( /\ Analyzed /\ last.stmt.k = "Par" /\ is_integer(last.stmt.return_type)
         /\ last.stmt.params = <<>>
         /\ Len(last.stmt.block.statements) = 1
         /\ last.stmt.block.statements[1].k = "Ibalik"
         /\ last.stmt.block.statements[1].rhs.k = "FloatLit" )
       => (last.res = "Err" /\ analyzer_has_error)

\* the names some scope of the symbol table holds, and one that none does
NamesInScope == UNION {DOMAIN symbol_table[i] : i \in 1..Len(symbol_table)} \cup {"fresh"}

\* C6: declare_symbol fails exactly when the innermost scope has the name, and
\* then leaves the table as it was; otherwise it changes the innermost scope
\* only, at that name, also when an enclosing scope has the name, and
\* lookup_symbol returns the new symbol; lookup_symbol of any name returns the
\* entry of the innermost scope that has it.
C6_DeclareAndLookup ==
    \A name \in NamesInScope :
        LET symbol == Var(name, TRUE, Prim("Bool"))
            d == declare_symbol(symbol_table, name, symbol)
            top == Len(symbol_table)
        IN  /\ top >= 1
            /\ d.ok <=> name \notin DOMAIN symbol_table[top]
            /\ ~d.ok => d.st = symbol_table
            /\ d.ok => /\ Len(d.st) = top
                       /\ SubSeq(d.st, 1, top - 1) = SubSeq(symbol_table, 1, top - 1)
                       /\ DOMAIN d.st[top] = DOMAIN symbol_table[top] \cup {name}
                       /\ \A n \in DOMAIN symbol_table[top] :
                              d.st[top][n] = symbol_table[top][n]
                       /\ lookup_symbol(d.st, name) = Some(symbol)
            /\ \A i \in 1..top :
                   ( /\ name \in DOMAIN symbol_table[i]
                     /\ \A j \in (i + 1)..top : name \notin DOMAIN symbol_table[j] )
                   => lookup_symbol(symbol_table, name) = Some(symbol_table[i][name])
            /\ (\A i \in 1..top : name \notin DOMAIN symbol_table[i])
                   => lookup_symbol(symbol_table, name) = None

\* a function was declared, its parameter of the same name was declared in the
\* scope of its body, and the name now resolves to the parameter
C6_Witness ==
    /\ Len(symbol_table) >= 2
    /\ "x" \in DOMAIN symbol_table[1] /\ symbol_table[1]["x"].k = "Paraan"
    /\ "x" \in DOMAIN symbol_table[2] /\ symbol_table[2]["x"].k = "Var"
    /\ lookup_symbol(symbol_table, "x") = Some(symbol_table[2]["x"])
    /\ ~declare_symbol(SubSeq(symbol_table, 1, 2), "x", Var("x", TRUE, Prim("Bool"))).ok

\* C7: a top-level statement leaves the scope stack at the depth it found,
\* whether its analysis succeeded or failed, and the stack has depth 1 once
\* analyze() has returned.
C7_ScopeDepthRestored ==
    /\ Analyzed => Len(symbol_table) = last.depth
    /\ analyzer_pc = "done" => Len(symbol_table) = 1

\* the record names a module declares
RecordNames == {ast[i].bagay_identifier.lexeme : i \in {j \in 1..Len(ast) : ast[j].k = "Bagay"}}

\* C8: in a module of records whose fields of record type name other records
\* of the module, in whatever order, analysis has no error and every such
\* field is a member of its record, of type Bagay of the record it names.
C8_PeerRecordsAnyOrder ==
    ( /\ analyzer_pc = "done"
      /\ Len(ast) = 2
      /\ \A i \in 1..Len(ast) :
            /\ ast[i].k = "Bagay"
            /\ \A f \in 1..Len(ast[i].fields) :
                  ast[i].fields[f][2].k = "UnknownIdentifier"
                  => ast[i].fields[f][2].name
                        \in RecordNames \ {ast[i].bagay_identifier.lexeme} )
    => /\ ~analyzer_has_error
       /\ \A i \in 1..Len(ast) : \A f \in 1..Len(ast[i].fields) :
             LET members == type_table[ast[i].bagay_identifier.lexeme].members
                 field == ast[i].fields[f]
             IN  /\ field[1].lexeme \in DOMAIN members
                 /\ field[2].k = "UnknownIdentifier"
                    => members[field[1].lexeme].tol_type = Bagay(field[2].name)

\* the type names an unresolved name that the type table does not have, at
\* its top or inside an array type
RECURSIVE NamesUnknownType(_)
NamesUnknownType(t) ==
    CASE t.k = "UnknownIdentifier" -> t.name \notin DOMAIN type_table
      [] t.k = "Array" -> NamesUnknownType(t.elem)
      [] OTHER -> FALSE

\* a declared type of the statement names an unknown type: of a binding, of a
\* function's parameters or return, of a record's fields, of the parameters
\* or return of a method of an impl
DeclaresUnknownType(s) ==
    CASE s.k = "Ang" -> NamesUnknownType(s.ang_type)
      [] s.k = "Par" ->
            \/ NamesUnknownType(s.return_type)
            \/ \E i \in 1..Len(s.params) : NamesUnknownType(s.params[i][2])
      [] s.k = "Bagay" -> \E i \in 1..Len(s.fields) : NamesUnknownType(s.fields[i][2])
      [] s.k = "Itupad" ->
            \E m \in 1..Len(s.itupad_block.methods) :
                \/ NamesUnknownType(s.itupad_block.methods[m].return_type)
                \/ \E i \in 1..Len(s.itupad_block.methods[m].params) :
                       NamesUnknownType(s.itupad_block.methods[m].params[i][2])
      [] OTHER -> FALSE

\* C9: a statement one of whose declared types names an unknown type, at the
\* top of the type or inside an array type, is refused and sets has_error.
C9_UnknownTypeDiagnosed ==
    (Analyzed /\ DeclaresUnknownType(last.stmt))
    => (last.res = "Err" /\ analyzer_has_error)

\* C10: an `ibalik` that is a statement of the module itself, so outside every
\* function and method, is refused with a diagnostic whatever was analyzed
\* before it.
C10_IbalikOutsideFunction ==
    (Analyzed /\ last.stmt.k = "Ibalik") => (last.res = "Err" /\ analyzer_has_error)

\* the fields (Vars) record `name` declares
DeclaredFields(name) ==
    {f \in DOMAIN type_table[name].members : type_table[name].members[f].k = "Var"}

\* C11: a struct expression T!(..) that gives fewer fields than record T
\* declares is refused with a diagnostic.
C11_StructFieldCount ==
    ( /\ Analyzed /\ last.stmt.k = "Ang" /\ last.stmt.rhs.k = "Struct"
      /\ last.stmt.rhs.callee.k = "Identifier"
      /\ last.stmt.rhs.callee.token.lexeme \in DOMAIN type_table
      /\ Len(last.stmt.rhs.fields)
             < Cardinality(DeclaredFields(last.stmt.rhs.callee.token.lexeme)) )
    => (last.res = "Err" /\ analyzer_has_error)

\* the statement `x = literal` for a name x, or None
AssignOf(stmt) ==
    IF /\ stmt.k = "ExprS" /\ stmt.expr.k = "Assign"
       /\ stmt.expr.left.k = "Identifier"
       /\ stmt.expr.right.k \in {"IntLit", "FloatLit"}
    THEN Some([name |-> stmt.expr.left.token.lexeme,
               type |-> IF stmt.expr.right.k = "IntLit" THEN Prim("UnsizedInt")
                        ELSE Prim("UnsizedFloat")])
    ELSE None

\* the only statement of a block is `x = literal` for the name x
BodyAssigns(block, x) ==
    /\ Len(block.statements) = 1
    /\ AssignOf(block.statements[1]).some
    /\ AssignOf(block.statements[1]).v.name = x

C14_EmptyArrayDiagnosed ==
    ( /\ last.res # "none" /\ last.stmt.k = "Ang"
      /\ last.stmt.ang_type.k = "Array" /\ ~last.stmt.ang_type.len.some
      /\ last.stmt.rhs.k = "Array" /\ last.stmt.rhs.elements = <<>> )
    => (last.res = "Err" /\ analyzer_has_error /\ analyzer_pc # "panic")

(***************************************************************************)
(*                                Parser                                   *)
(*                                                                         *)
(* The parser's methods are operators over a record `p` of what they       *)
(* mutate: cur (Parser.current), id (Parser.ast_id) and shown, the number  *)
(* of diagnostics displayed so far.  They read Module.tokens and return    *)
(* [res, a, v, err] as the analyzer's do, a being the parser they leave.   *)
(* res is "Hang" where a loop of the parser makes no progress.  An AST     *)
(* node is a record of the fields of its variant, without line and column. *)
(***************************************************************************)

Hang(a) == [res |-> "Hang", a |-> a, v |-> None, err |-> "hang"]

\* Parser::is_at_end
is_at_end(p) == p.cur >= Len(tokens) - 1

\* Parser::peek
peek(p) == IF is_at_end(p) THEN Panic(p) ELSE Ok(p, tokens[p.cur + 1])

\* Parser::advance
advance(p) ==
    IF is_at_end(p) THEN Panic(p)
    ELSE Ok([p EXCEPT !.cur = @ + 1], tokens[p.cur + 1])

\* Parser::consume; its error argument, built by expect_err from peek(),
\* panics at the end of the input as consume itself does
consume(p, expected_kind) ==
    IF is_at_end(p) THEN Panic(p)
    ELSE IF tokens[p.cur + 1].kind = expected_kind THEN advance(p)
    ELSE Err(p, "Expected" \o expected_kind)

\* a counter that is read and never advanced
NextId_Stuck(p) == p

\* let id = self.ast_id; self.ast_id += 1;
NextId(p) == [p EXCEPT !.id = @ + 1]

\* e.display(..) in the loop of a block
Display(p) == [p EXCEPT !.shown = @ + 1]

\* get_op_info with + and - as tight as * and /
get_op_info_Flat(op) ==
    CASE op.kind = "Equal" -> <<1, "Right">>
      [] op.kind \in {"DotDot", "DotDotEqual"} -> <<2, "Left">>
      [] op.kind \in {"Plus", "Minus", "Star", "Slash"} -> <<4, "Left">>
      [] op.kind \in {"Dot", "ColonColon"} -> <<5, "Left">>
      [] op.kind \in {"LeftParen", "Bang"} -> <<6, "Left">>
      [] OTHER -> <<0, "None">>

\* Parser::get_op_info: precedence and associativity
get_op_info(op) ==
    CASE op.kind = "Equal" -> <<1, "Right">>
      [] op.kind \in {"DotDot", "DotDotEqual"} -> <<2, "Left">>
      [] op.kind \in {"Plus", "Minus"} -> <<3, "Left">>
      [] op.kind \in {"Star", "Slash"} -> <<4, "Left">>
      [] op.kind \in {"Dot", "ColonColon"} -> <<5, "Left">>
      [] op.kind \in {"LeftParen", "Bang"} -> <<6, "Left">>
      [] OTHER -> <<0, "None">>

StatementStart == {"Paraan", "Ang", "Ibalik", "Bagay", "Kung", "At", "Itupad", "Sa"}

\* Parser::synchronize_until
RECURSIVE synchronize_until(_, _)
synchronize_until(p, end_tokens) ==
    IF is_at_end(p) THEN p
    ELSE IF tokens[p.cur + 1].kind \in end_tokens \cup StatementStart THEN p
    ELSE synchronize_until([p EXCEPT !.cur = @ + 1], end_tokens)

\* the loop of Parser::synchronize
RECURSIVE synchronize_loop(_)
synchronize_loop(p) ==
    IF is_at_end(p) THEN p
    ELSE IF tokens[p.cur].kind \in {"SemiColon", "RightBrace"} THEN p
    ELSE IF tokens[p.cur + 1].kind \in StatementStart THEN p
    ELSE synchronize_loop([p EXCEPT !.cur = @ + 1])

\* Parser::synchronize
synchronize(p) ==
    IF is_at_end(p) THEN p ELSE synchronize_loop([p EXCEPT !.cur = @ + 1])

\* str::parse::<usize> of the lexeme of an IntLit, for the numerals below 16
parse_usize(lexeme) ==
    LET digit == <<"0", "1", "2", "3", "4", "5", "6", "7", "8", "9">>
        numeral(n) == IF n < 10 THEN digit[n + 1]
                      ELSE digit[(n \div 10) + 1] \o digit[(n % 10) + 1]
    IN  IF \E n \in 0..15 : numeral(n) = lexeme
        THEN Some(CHOOSE n \in 0..15 : numeral(n) = lexeme)
        ELSE None

PrimitiveNames ==
    [i8 |-> "I8", i16 |-> "I16", i32 |-> "I32", i64 |-> "I64", isukat |-> "ISukat",
     u8 |-> "U8", u16 |-> "U16", u32 |-> "U32", u64 |-> "U64", usukat |-> "USukat",
     lutang |-> "Lutang", dobletang |-> "DobleTang", kar |-> "Kar", wala |-> "Wala"]
     @@ ("bool," :> "Bool")

\* Parser::parse_type
RECURSIVE parse_type(_)
parse_type(p) ==
    Try(peek(p), LAMBDA t :
        CASE t.v.lexeme \in DOMAIN PrimitiveNames ->
                Try(advance(p), LAMBDA adv : Ok(adv.a, Prim(PrimitiveNames[t.v.lexeme])))
          [] t.v.lexeme = "[" ->
                Try(advance(p), LAMBDA adv :
                Try(peek(adv.a), LAMBDA t2 :
                Try(IF t2.v.kind # "RightBracket"
                    THEN Try(consume(adv.a, "IntLit"), LAMBDA int_lit :
                             IF parse_usize(int_lit.v.lexeme).some
                             THEN Ok(int_lit.a, parse_usize(int_lit.v.lexeme))
                             ELSE Err(int_lit.a, "NotUsize"))
                    ELSE Ok(adv.a, None), LAMBDA len :
                Try(consume(len.a, "RightBracket"), LAMBDA rb :
                Try(parse_type(rb.a), LAMBDA elem_type :
                Ok(elem_type.a, Array(elem_type.v, len.v)))))))
          [] t.v.lexeme = "*" ->
                Try(advance(p), LAMBDA adv :
                Try(peek(adv.a), LAMBDA t2 :
                    IF t2.v.kind = "Maiba"
                    THEN Try(advance(adv.a), LAMBDA adv2 :
                         Try(parse_type(adv2.a), LAMBDA right_type :
                         Ok(right_type.a, MutablePointer(right_type.v))))
                    ELSE Try(parse_type(adv.a), LAMBDA right_type :
                         Ok(right_type.a, Pointer(right_type.v)))))
          [] OTHER ->
                Try(advance(p), LAMBDA adv : Ok(adv.a, UnknownIdentifier(adv.v.lexeme))))

\* the `while` loop of Parser::parse_params
RECURSIVE parse_params_loop(_, _)
parse_params_loop(p, params) ==
    Try(peek(p), LAMBDA t :
        IF t.v.kind = "RightParen" THEN Ok(p, params)
        ELSE Try(consume(p, "Identifier"), LAMBDA param_identifier :
             Try(consume(param_identifier.a, "Colon"), LAMBDA colon :
             Try(parse_type(colon.a), LAMBDA param_type :
             Try(peek(param_type.a), LAMBDA t2 :
                 IF t2.v.kind = "Comma"
                 THEN parse_params_loop(
                          [param_type.a EXCEPT !.cur = @ + 1],
                          Append(params, <<param_identifier.v, param_type.v>>))
                 ELSE IF t2.v.kind # "RightParen"
                 THEN Err(param_type.a, "UnclosedParams")
                 ELSE parse_params_loop(
                          param_type.a,
                          Append(params, <<param_identifier.v, param_type.v>>)))))))

\* Parser::parse_params
parse_params(p) ==
    Try(peek(p), LAMBDA t :
    Try(IF t.v.lexeme = "ako"
        THEN Try(advance(p), LAMBDA adv : Ok(adv.a, <<<<adv.v, Prim("AkoType")>>>>))
        ELSE Ok(p, <<>>), LAMBDA first :
    Try(peek(first.a), LAMBDA t2 :
        parse_params_loop(IF t2.v.kind = "Comma"
                          THEN [first.a EXCEPT !.cur = @ + 1] ELSE first.a,
                          first.v))))

\* the loop of Parser::parse_bagay_fields
RECURSIVE parse_bagay_fields_loop(_, _)
parse_bagay_fields_loop(p, fields) ==
    Try(peek(p), LAMBDA t :
        IF t.v.kind = "RightBrace"
        THEN Try(advance(p), LAMBDA adv : Ok(adv.a, fields))
        ELSE Try(consume(p, "Identifier"), LAMBDA field_id :
             Try(consume(field_id.a, "Colon"), LAMBDA colon :
             Try(parse_type(colon.a), LAMBDA field_type :
             Try(peek(field_type.a), LAMBDA t2 :
                 IF t2.v.kind = "Comma"
                 THEN parse_bagay_fields_loop(
                          [field_type.a EXCEPT !.cur = @ + 1],
                          Append(fields, <<field_id.v, field_type.v>>))
                 ELSE IF t2.v.kind # "RightBrace"
                 THEN Err(field_type.a, "ExpectedCommaOrBrace")
                 ELSE parse_bagay_fields_loop(
                          field_type.a,
                          Append(fields, <<field_id.v, field_type.v>>)))))))

\* Parser::parse_bagay, with parse_bagay_fields
parse_bagay(p) ==
    Try(consume(p, "Bagay"), LAMBDA bagay_tok :
    Try(consume(bagay_tok.a, "Identifier"), LAMBDA bagay_identifier :
    Try(consume(bagay_identifier.a, "LeftBrace"), LAMBDA lb :
    Try(parse_bagay_fields_loop(lb.a, <<>>), LAMBDA fields :
    Ok(NextId(fields.a),
       [k |-> "Bagay", bagay_identifier |-> bagay_identifier.v,
        fields |-> fields.v, id |-> fields.a.id])))))

RECURSIVE parse_expression(_, _)

\* the loop shared by Parser::parse_args and the array literal of nud:
\* expressions separated by commas up to, and without, the closing token
RECURSIVE parse_elements(_, _, _)
parse_elements(p, closing, elements) ==
    IF is_at_end(p) \/ tokens[p.cur + 1].kind = closing THEN Ok(p, elements)
    ELSE Try(parse_expression(p, 0), LAMBDA element :
         Try(peek(element.a), LAMBDA t :
             IF t.v.kind = "Comma"
             THEN parse_elements([element.a EXCEPT !.cur = @ + 1], closing,
                                 Append(elements, element.v))
             ELSE IF t.v.kind # closing THEN Err(element.a, "ExpectedCommaOrClosing")
             ELSE parse_elements(element.a, closing, Append(elements, element.v))))

\* Parser::parse_args
parse_args(p) ==
    Try(parse_elements(p, "RightParen", <<>>), LAMBDA args :
        IF is_at_end(args.a) THEN Err(args.a, "UnclosedParen")
        ELSE Try(consume(args.a, "RightParen"), LAMBDA rp : Ok(rp.a, args.v)))

\* the loop of Parser::parse_struct_expr
RECURSIVE parse_struct_fields(_, _)
parse_struct_fields(p, fields) ==
    Try(peek(p), LAMBDA t :
        IF t.v.kind = "RightParen" THEN Ok(p, fields)
        ELSE Try(consume(p, "Identifier"), LAMBDA field_name :
             Try(consume(field_name.a, "Colon"), LAMBDA colon :
             Try(parse_expression(colon.a, 0), LAMBDA field_expr :
             Try(peek(field_expr.a), LAMBDA t2 :
                 IF t2.v.kind = "Comma"
                 THEN parse_struct_fields(
                          [field_expr.a EXCEPT !.cur = @ + 1],
                          Append(fields, <<field_name.v, field_expr.v>>))
                 ELSE IF t2.v.kind # "RightParen"
                 THEN Err(field_expr.a, "ExpectedCommaOrParen")
                 ELSE parse_struct_fields(
                          field_expr.a,
                          Append(fields, <<field_name.v, field_expr.v>>)))))))

\* Parser::parse_struct_expr
parse_struct_expr(p, callee) ==
    Try(consume(p, "LeftParen"), LAMBDA lp :
    Try(parse_struct_fields(lp.a, <<>>), LAMBDA fields :
        IF is_at_end(fields.a) THEN Err(fields.a, "UnclosedParen")
        ELSE Try(consume(fields.a, "RightParen"), LAMBDA rp :
             Ok(NextId(rp.a),
                [k |-> "Struct", callee |-> callee, fields |-> fields.v,
                 id |-> rp.a.id]))))

\* Parser::nud
nud(p) ==
    Try(peek(p), LAMBDA current_tok :
        CASE current_tok.v.kind \in
                {"IntLit", "FloatLit", "StringLit", "ByteStringLit", "Identifier"} ->
                Ok(NextId([p EXCEPT !.cur = @ + 1]),
                   [k |-> current_tok.v.kind, token |-> current_tok.v, id |-> p.id])
          [] current_tok.v.kind = "LeftParen" ->
                Try(parse_expression([p EXCEPT !.cur = @ + 1], 0), LAMBDA expr :
                Try(consume(expr.a, "RightParen"), LAMBDA rp : Ok(rp.a, expr.v)))
          [] current_tok.v.kind = "At" ->
                Try(advance([p EXCEPT !.cur = @ + 1]), LAMBDA name :
                Try(consume(name.a, "LeftParen"), LAMBDA lp :
                Try(parse_args(lp.a), LAMBDA args :
                Ok(NextId(args.a),
                   [k |-> "MagicFnCall", name |-> name.v, args |-> args.v,
                    id |-> args.a.id]))))
          [] current_tok.v.kind = "Amper" ->
                Try(peek([p EXCEPT !.cur = @ + 1]), LAMBDA t :
                    IF t.v.kind = "Maiba"
                    THEN Try(parse_expression([t.a EXCEPT !.cur = @ + 1], 0),
                             LAMBDA right :
                             Ok(NextId(right.a),
                                [k |-> "MutableAddressOf", of |-> right.v,
                                 id |-> right.a.id]))
                    ELSE Try(parse_expression(t.a, 0), LAMBDA right :
                             Ok(NextId(right.a),
                                [k |-> "AddressOf", of |-> right.v, id |-> right.a.id])))
          [] current_tok.v.kind = "Star" ->
                Try(parse_expression([p EXCEPT !.cur = @ + 1], 0), LAMBDA right :
                Ok(NextId(right.a),
                   [k |-> "Deref", right |-> right.v, id |-> right.a.id]))
          [] current_tok.v.kind = "LeftBracket" ->
                Try(parse_elements([p EXCEPT !.cur = @ + 1], "RightBracket", <<>>),
                    LAMBDA elements :
                Try(consume(elements.a, "RightBracket"), LAMBDA rb :
                Ok(NextId(rb.a),
                   [k |-> "Array", elements |-> elements.v, id |-> rb.a.id])))
          [] OTHER -> Err(p, "ExpectedExpression"))

\* Parser::led, with parse_member_access, parse_fncall and
\* parse_scope_resolution; the operator token has been consumed
led(p, op, left) ==
    LET precedence == IF get_op_info(op)[2] = "Left" THEN get_op_info(op)[1]
                      ELSE get_op_info(op)[1] + 1
    IN  CASE op.kind = "Dot" ->
                Try(consume(NextId(p), "Identifier"), LAMBDA member :
                Ok(member.a,
                   [k |-> "MemberAccess", left |-> left, member |-> member.v,
                    id |-> p.id]))
          [] op.kind = "LeftParen" ->
                Try(parse_args(p), LAMBDA args :
                Ok(NextId(args.a),
                   [k |-> "FnCall", callee |-> left, args |-> args.v, id |-> args.a.id]))
          [] op.kind = "Bang" -> parse_struct_expr(p, left)
          [] op.kind = "ColonColon" ->
                Try(consume(p, "Identifier"), LAMBDA field :
                Ok(NextId(field.a),
                   [k |-> "ScopeResolution", left |-> left, field |-> field.v,
                    id |-> field.a.id]))
          [] op.kind \in {"DotDot", "DotDotEqual"} ->
                Try(parse_expression(p, precedence), LAMBDA right :
                Ok(NextId(right.a),
                   [k |-> IF op.kind = "DotDot" THEN "RangeExclusive"
                          ELSE "RangeInclusive",
                    start |-> left, end |-> right.v, id |-> right.a.id]))
          [] op.kind = "Equal" ->
                Try(parse_expression(p, precedence), LAMBDA right :
                Ok(NextId(right.a),
                   [k |-> "Assign", left |-> left, right |-> right.v,
                    id |-> right.a.id]))
          [] OTHER ->
                Try(parse_expression(p, precedence), LAMBDA right :
                Ok(NextId(right.a),
                   [k |-> "Binary", op |-> op, left |-> left, right |-> right.v,
                    id |-> right.a.id]))

\* the `while` loop of Parser::parse_expression
RECURSIVE parse_expression_loop(_, _, _)
parse_expression_loop(p, left, precedence) ==
    IF is_at_end(p) THEN Ok(p, left)
    ELSE IF get_op_info(tokens[p.cur + 1])[1] <= precedence THEN Ok(p, left)
    ELSE Try(led([p EXCEPT !.cur = @ + 1], tokens[p.cur + 1], left), LAMBDA l :
             parse_expression_loop(l.a, l.v, precedence))

\* Parser::parse_expression
parse_expression(p, precedence) ==
    Try(nud(p), LAMBDA left : parse_expression_loop(left.a, left.v, precedence))

\* match .. { Ok(x) => K, Err(e) => H }: a panic or a hang goes through
Catch(r, K(_), H(_)) ==
    IF r.res = "Ok" THEN K(r) ELSE IF r.res = "Err" THEN H(r) ELSE r

RECURSIVE parse_statement(_)

\* the `while` loop of Parser::parse_block; an iteration that fails and
\* leaves the parser where it was repeats forever
RECURSIVE parse_block_loop(_, _)
parse_block_loop(p, statements) ==
    IF is_at_end(p) \/ tokens[p.cur + 1].kind = "RightBrace" THEN Ok(p, statements)
    ELSE Catch(parse_statement(p),
               LAMBDA stmt : parse_block_loop(stmt.a, Append(statements, stmt.v)),
               LAMBDA e :
                   LET s == synchronize_until(Display(e.a), {"RightBrace"})
                   IN  IF s.cur = p.cur THEN Hang(s)
                       ELSE parse_block_loop(s, statements))

\* Parser::parse_block
parse_block(p) ==
    Try(consume(p, "LeftBrace"), LAMBDA left_brace_tok :
    Try(parse_block_loop(left_brace_tok.a, <<>>), LAMBDA statements :
        IF is_at_end(statements.a) THEN Err(statements.a, "UnclosedBrace")
        ELSE Try(consume(statements.a, "RightBrace"), LAMBDA rb :
             Ok(NextId(rb.a),
                [k |-> "Block", statements |-> statements.v, id |-> rb.a.id]))))

\* the optional return type of parse_par and parse_method
parse_return_type(p) ==
    Try(peek(p), LAMBDA t :
        IF t.v.kind # "LeftBrace" THEN parse_type(p) ELSE Ok(p, Prim("Wala")))

\* Parser::parse_par
parse_par(p) ==
    Try(consume(p, "Paraan"), LAMBDA par_tok :
    Try(consume(par_tok.a, "Identifier"), LAMBDA par_identifier :
    Try(consume(par_identifier.a, "LeftParen"), LAMBDA lp :
    Try(parse_params(lp.a), LAMBDA params :
    Try(consume(params.a, "RightParen"), LAMBDA rp :
    Try(parse_return_type(rp.a), LAMBDA return_type :
    Try(parse_block(return_type.a), LAMBDA block :
    Ok(NextId(block.a),
       [k |-> "Par", par_identifier |-> par_identifier.v, params |-> params.v,
        return_type |-> return_type.v, block |-> block.v, id |-> block.a.id]))))))))

\* Parser::parse_method
parse_method(p) ==
    Try(consume(p, "Paraan"), LAMBDA par_tok :
    Try(consume(par_tok.a, "Identifier"), LAMBDA met_identifier :
    Try(consume(met_identifier.a, "LeftParen"), LAMBDA lp :
    Try(peek(lp.a), LAMBDA first :
    Try(parse_params(lp.a), LAMBDA params :
    Try(advance(params.a), LAMBDA rp :
    Try(parse_return_type(rp.a), LAMBDA return_type :
    Try(parse_block(return_type.a), LAMBDA block :
    Ok(NextId(block.a),
       [k |-> "Method", is_static |-> first.v.lexeme # "ako",
        met_identifier |-> met_identifier.v, params |-> params.v,
        return_type |-> return_type.v, block |-> block.v, id |-> block.a.id])))))))))

\* the `while` loop of Parser::parse_itupad_block
RECURSIVE parse_itupad_block_loop(_, _)
parse_itupad_block_loop(p, methods) ==
    IF is_at_end(p) \/ tokens[p.cur + 1].kind = "RightBrace" THEN Ok(p, methods)
    ELSE Catch(parse_method(p),
               LAMBDA method : parse_itupad_block_loop(method.a, Append(methods, method.v)),
               LAMBDA e :
                   LET s == synchronize_until(Display(e.a), {"RightBrace"})
                   IN  IF s.cur = p.cur THEN Hang(s)
                       ELSE parse_itupad_block_loop(s, methods))

\* Parser::parse_itupad_block
parse_itupad_block(p) ==
    Try(consume(p, "LeftBrace"), LAMBDA lb_tok :
    Try(parse_itupad_block_loop(lb_tok.a, <<>>), LAMBDA methods :
        IF is_at_end(methods.a) THEN Err(methods.a, "UnclosedBrace")
        ELSE Try(consume(methods.a, "RightBrace"), LAMBDA rb :
             Ok(NextId(rb.a),
                [k |-> "ItupadBlock", methods |-> methods.v, id |-> rb.a.id]))))

\* Parser::parse_itupad
parse_itupad(p) ==
    Try(consume(p, "Itupad"), LAMBDA itupad_tok :
    Try(parse_type(itupad_tok.a), LAMBDA itupad_for :
    Try(parse_itupad_block(itupad_for.a), LAMBDA itupad_block :
    Ok(NextId(itupad_block.a),
       [k |-> "Itupad", itupad_for |-> itupad_for.v,
        itupad_block |-> itupad_block.v, id |-> itupad_block.a.id]))))

\* Parser::parse_ang
parse_ang(p) ==
    Try(consume(p, "Ang"), LAMBDA ang_tok :
    Try(peek(ang_tok.a), LAMBDA t :
    Try(consume(IF t.v.kind = "Maiba" THEN [t.a EXCEPT !.cur = @ + 1] ELSE t.a,
                "Identifier"), LAMBDA ang_identifier :
    Try(peek(ang_identifier.a), LAMBDA t2 :
    Try(IF t2.v.kind = "Colon"
        THEN parse_type([t2.a EXCEPT !.cur = @ + 1])
        ELSE Ok(t2.a, [k |-> "Unknown"]), LAMBDA ang_type :
    Try(consume(ang_type.a, "Equal"), LAMBDA eq :
    Try(parse_expression(eq.a, 0), LAMBDA rhs :
    Ok(NextId(rhs.a),
       [k |-> "Ang", mutable |-> t.v.kind = "Maiba",
        ang_identifier |-> ang_identifier.v, ang_type |-> ang_type.v,
        rhs |-> rhs.v, id |-> rhs.a.id]))))))))

\* Parser::parse_ibalik
parse_ibalik(p) ==
    Try(consume(p, "Ibalik"), LAMBDA ibalik_tok :
    Try(parse_expression(ibalik_tok.a, 0), LAMBDA rhs :
    Ok(NextId(rhs.a), [k |-> "Ibalik", rhs |-> rhs.v, id |-> rhs.a.id])))

\* Parser::parse_expr_stmt
parse_expr_stmt(p) ==
    Try(peek(p), LAMBDA start_tok :
    Try(parse_expression(p, 0), LAMBDA expr :
    Ok(NextId(expr.a), [k |-> "ExprS", expr |-> expr.v, id |-> expr.a.id])))

\* Parser::parse_sa
parse_sa(p) ==
    Try(consume(p, "Sa"), LAMBDA sa_tok :
    Try(parse_expression(sa_tok.a, 0), LAMBDA iterator :
    Try(consume(iterator.a, "ThickArrow"), LAMBDA arrow :
    Try(consume(arrow.a, "Identifier"), LAMBDA bind :
    Try(parse_block(bind.a), LAMBDA block :
    Ok(NextId(block.a),
       [k |-> "Sa", iterator |-> iterator.v, bind |-> bind.v, block |-> block.v,
        id |-> block.a.id]))))))

\* the `kundi` branches and the `kungwala` branch of Parser::parse_kung
RECURSIVE parse_kung_branches(_, _)
parse_kung_branches(p, branches) ==
    Try(peek(p), LAMBDA t :
        CASE t.v.kind = "KungDi" ->
                Try(parse_expression([p EXCEPT !.cur = @ + 1], 0), LAMBDA condition :
                Try(parse_block(condition.a), LAMBDA block :
                parse_kung_branches(
                    block.a,
                    Append(branches,
                           [condition |-> Some(condition.v), block |-> block.v]))))
          [] t.v.kind = "KungWala" ->
                Try(parse_block([p EXCEPT !.cur = @ + 1]), LAMBDA block :
                Ok(block.a, Append(branches, [condition |-> None, block |-> block.v])))
          [] OTHER -> Ok(p, branches))

\* Parser::parse_kung
parse_kung(p) ==
    Try(consume(p, "Kung"), LAMBDA kung_tok :
    Try(parse_expression(kung_tok.a, 0), LAMBDA condition :
    Try(parse_block(condition.a), LAMBDA block :
    Try(parse_kung_branches(
            block.a, <<[condition |-> Some(condition.v), block |-> block.v]>>),
        LAMBDA branches :
    Ok(NextId(branches.a),
       [k |-> "Kung", branches |-> branches.v, id |-> branches.a.id])))))

\* statement; consume(SemiColon)
ThenSemiColon(r) ==
    Try(r, LAMBDA stmt :
    Try(consume(stmt.a, "SemiColon"), LAMBDA semi : Ok(semi.a, stmt.v)))

\* Parser::parse_statement
parse_statement(p) ==
    Try(peek(p), LAMBDA t :
        CASE t.v.kind = "Paraan" -> parse_par(p)
          [] t.v.kind = "Ang" -> ThenSemiColon(parse_ang(p))
          [] t.v.kind = "Ibalik" -> ThenSemiColon(parse_ibalik(p))
          [] t.v.kind = "Bagay" -> parse_bagay(p)
          [] t.v.kind = "Itupad" -> parse_itupad(p)
          [] t.v.kind = "Kung" -> parse_kung(p)
          [] t.v.kind = "Sa" -> parse_sa(p)
          [] OTHER -> ThenSemiColon(parse_expr_stmt(p)))

(***************************************************************************)
(*                       SPECIFICATION: the parser                         *)
(*                                                                         *)
(* parse() over a token stream as the lexer leaves it: pieces of source    *)
(* text, in any order, and the Eof token.                                  *)
(***************************************************************************)

MaxPieces == 4

Tk(kind, lexeme) == Token(lexeme, kind, 1, 1)

\* pieces of a module, written in the source language
Pieces ==
    { \* paraan f() {
      <<Tk("Paraan", "paraan"), Tk("Identifier", "f"), Tk("LeftParen", "("),
        Tk("RightParen", ")"), Tk("LeftBrace", "{")>>,
      \* }
      <<Tk("RightBrace", "}")>>,
      \* ang x = 1;
      <<Tk("Ang", "ang"), Tk("Identifier", "x"), Tk("Equal", "="),
        Tk("IntLit", "1"), Tk("SemiColon", ";")>>,
      \* ang = 1;
      <<Tk("Ang", "ang"), Tk("Equal", "="), Tk("IntLit", "1"), Tk("SemiColon", ";")>>,
      \* itupad B {
      <<Tk("Itupad", "itupad"), Tk("Identifier", "B"), Tk("LeftBrace", "{")>>,
      \* paraan m(ako) i32
      <<Tk("Paraan", "paraan"), Tk("Identifier", "m"), Tk("LeftParen", "("),
        Tk("Identifier", "ako"), Tk("RightParen", ")"), Tk("Identifier", "i32")>>,
      \* x;
      <<Tk("Identifier", "x"), Tk("SemiColon", ";")>>,
      \* kung x {
      <<Tk("Kung", "kung"), Tk("Identifier", "x"), Tk("LeftBrace", "{")>>,
      \* )
      <<Tk("RightParen", ")")>>,
      \* x + [1, 1];
      <<Tk("Identifier", "x"), Tk("Plus", "+"), Tk("LeftBracket", "["),
        Tk("IntLit", "1"), Tk("Comma", ","), Tk("IntLit", "1"),
        Tk("RightBracket", "]"), Tk("SemiColon", ";")>> }

RECURSIVE Concat(_)
Concat(seqs) == IF seqs = <<>> THEN <<>> ELSE Head(seqs) \o Concat(Tail(seqs))

TokenStreams ==
    {Append(Concat(pieces), Tk("Eof", "Eof")) : pieces \in SeqsUpTo(Pieces, MaxPieces)}

\* Parser::new
ParserNew ==
    /\ parser_current = 0 /\ ast_id = 0 /\ parser_has_error = FALSE
    /\ parser_shown = 0 /\ parser_pc = "parsing"

\* what the parser's methods read and write
PState == [cur |-> parser_current, id |-> ast_id, shown |-> parser_shown]

\* one iteration of the loop of parse(): r is what parse_statement returned.
\* The statements parse() collects are written to ast as they are pushed.
ParseOne(r) ==
    /\ ast' = IF r.res = "Ok" THEN Append(ast, r.v) ELSE ast
    /\ parser_current' = IF r.res = "Err" THEN synchronize(r.a).cur ELSE r.a.cur
    /\ ast_id' = r.a.id
    /\ parser_shown' = r.a.shown + (IF r.res = "Err" THEN 1 ELSE 0)
    /\ parser_has_error' = (parser_has_error \/ r.res = "Err")
    /\ parser_pc' = CASE r.res = "Panic" -> "panic"
                      [] r.res = "Hang" -> "hang"
                      [] OTHER -> parser_pc
    /\ UNCHANGED <<source_code, tokens, symbol_table, type_table, inferred_types,
                   declared_array_types, lexerVars, analyzerVars, driverVars>>

\* parse(): an iteration of the loop
ParseStatement ==
    /\ parser_pc = "parsing"
    /\ ~is_at_end(PState)
    /\ tokens[parser_current + 1].kind # "Eof"
    /\ ParseOne(parse_statement(PState))

\* parse() returns
ParseReturn ==
    /\ parser_pc = "parsing"
    /\ is_at_end(PState) \/ tokens[parser_current + 1].kind = "Eof"
    /\ parser_pc' = "done"
    /\ UNCHANGED <<source_code, tokens, restOfModule, lexerVars, analyzerVars,
                   driverVars, parser_current, ast_id, parser_has_error,
                   parser_shown>>

InitParse ==
    /\ source_code = <<>>
    /\ tokens \in TokenStreams
    /\ ast = <<>>
    /\ symbol_table = <<EmptyMap>>
    /\ type_table = EmptyMap
    /\ inferred_types = EmptyMap
    /\ declared_array_types = <<>>
    /\ start = 0 /\ current = 0 /\ line = 1 /\ column = 1 /\ start_column = 1
    /\ lexer_has_error = FALSE /\ lexer_pc = "done"
    /\ ParserNew
    /\ AnalyzerIdle /\ DriverIdle

NextParse == ParseStatement \/ ParseReturn

SpecParse == InitParse /\ [][NextParse]_vars

(***************************************************************************)
(*                       Properties of the parser                          *)
(***************************************************************************)

\* C5: every diagnostic the parser displays, also one for a statement inside
\* a block or for a method inside an itupad block, leaves has_error true when
\* parse() returns.
C5_DiagnosticSetsHasError ==
    (parser_pc = "done" /\ parser_shown > 0) => parser_has_error

(***************************************************************************)
(*             SPECIFICATION: the parser on operator chains                *)
(*                                                                         *)
(* parse() over the token stream of one expression statement               *)
(* `x1 op1 x2 ... opn xn+1 ;` with up to MaxOps operators of + - * / =,    *)
(* the operands being distinct names or distinct numbers.                  *)
(***************************************************************************)

MaxOps == 3

OpTokens ==
    {Tk("Plus", "+"), Tk("Minus", "-"), Tk("Star", "*"), Tk("Slash", "/"),
     Tk("Equal", "=")}

OperandNames == <<"a", "b", "c", "d", "e", "f", "g", "h">>
OperandNumbers == <<"1", "2", "3", "4", "5", "6", "7", "8">>

Operand(style, i) ==
    IF style = "names" THEN Tk("Identifier", OperandNames[i])
    ELSE Tk("IntLit", OperandNumbers[i])

ChainTokens(ops, style) ==
    [i \in 1..(2 * Len(ops) + 1) |->
        IF i % 2 = 1 THEN Operand(style, (i + 1) \div 2) ELSE ops[i \div 2]]
    \o <<Tk("SemiColon", ";"), Tk("Eof", "Eof")>>

ChainStreams ==
    {ChainTokens(ops, style) :
        ops \in SeqsUpTo(OpTokens, MaxOps), style \in {"names", "numbers"}}

InitExpr ==
    /\ source_code = <<>>
    /\ tokens \in ChainStreams
    /\ ast = <<>>
    /\ symbol_table = <<EmptyMap>>
    /\ type_table = EmptyMap
    /\ inferred_types = EmptyMap
    /\ declared_array_types = <<>>
    /\ start = 0 /\ current = 0 /\ line = 1 /\ column = 1 /\ start_column = 1
    /\ lexer_has_error = FALSE /\ lexer_pc = "done"
    /\ ParserNew
    /\ AnalyzerIdle /\ DriverIdle

SpecExpr == InitExpr /\ [][NextParse]_vars

\* An expression without ids and positions
RECURSIVE Shape(_)
Shape(expr) ==
    CASE expr.k \in {"IntLit", "Identifier"} -> [leaf |-> expr.token.lexeme]
      [] expr.k = "Binary" ->
            [op |-> expr.op.lexeme, left |-> Shape(expr.left),
             right |-> Shape(expr.right)]
      [] expr.k = "Assign" ->
            [op |-> "=", left |-> Shape(expr.left), right |-> Shape(expr.right)]
      [] OTHER -> [other |-> expr.k]

Leaf(x) == [leaf |-> x]
Node(op, l, r) == [op |-> op, left |-> l, right |-> r]

\* the operators of a chain, and the chains of the given operators
NumOps(toks) == (Len(toks) - 3) \div 2
IsChainOf(toks, kinds) ==
    \A k \in 1..NumOps(toks) : toks[2 * k].kind \in kinds

\* how tightly the specification has an arithmetic operator bind
Tightness(op) == IF op.kind \in {"Star", "Slash"} THEN 2 ELSE 1

\* the operator at which the operands i..j of a chain split: of the
\* operators that bind least tightly, the last
SplitOf(toks, i, j) ==
    CHOOSE k \in i..(j - 1) :
        /\ \A m \in i..(j - 1) : Tightness(toks[2 * m]) >= Tightness(toks[2 * k])
        /\ \A m \in (k + 1)..(j - 1) : Tightness(toks[2 * m]) > Tightness(toks[2 * k])

\* the tree of the operands i..j of an arithmetic chain
RECURSIVE ArithmeticTree(_, _, _)
ArithmeticTree(toks, i, j) ==
    IF i = j THEN Leaf(toks[2 * i - 1].lexeme)
    ELSE Node(toks[2 * SplitOf(toks, i, j)].lexeme,
              ArithmeticTree(toks, i, SplitOf(toks, i, j)),
              ArithmeticTree(toks, SplitOf(toks, i, j) + 1, j))

\* the right-nested tree of the operands i..j of a chain of assignments
RECURSIVE AssignTree(_, _, _)
AssignTree(toks, i, j) ==
    IF i = j THEN Leaf(toks[2 * i - 1].lexeme)
    ELSE Node("=", Leaf(toks[2 * i - 1].lexeme), AssignTree(toks, i + 1, j))

Lexemes(toks) == [i \in 1..Len(toks) |-> toks[i].lexeme]

\* parse() returned one expression statement of the given shape
ParsedAs(shape) ==
    /\ parser_pc = "done" /\ ~parser_has_error
    /\ Len(ast) = 1 /\ ast[1].k = "ExprS"
    /\ Shape(ast[1].expr) = shape

\* C19: for any chain of + - * / operators, parse_expression builds the tree
\* in which * and / bind tighter than + and - and operators of equal
\* precedence associate to the left: `1 + 2 * 3` is
\* Binary(+, 1, Binary(*, 2, 3)) and `a - b - c` is
\* Binary(-, Binary(-, a, b), c).
C19_ArithmeticPrecedence ==
    (parser_pc = "done" /\ tokens \in ChainStreams
     /\ IsChainOf(tokens, {"Plus", "Minus", "Star", "Slash"})) =>
        /\ ParsedAs(ArithmeticTree(tokens, 1, NumOps(tokens) + 1))
        /\ Lexemes(tokens) = <<"1", "+", "2", "*", "3", ";", "Eof">> =>
               ParsedAs(Node("+", Leaf("1"), Node("*", Leaf("2"), Leaf("3"))))
        /\ Lexemes(tokens) = <<"a", "-", "b", "-", "c", ";", "Eof">> =>
               ParsedAs(Node("-", Node("-", Leaf("a"), Leaf("b")), Leaf("c")))

C19_Witness ==
    /\ Lexemes(tokens) = <<"1", "+", "2", "*", "3", ";", "Eof">>
    /\ ParsedAs(Node("+", Leaf("1"), Node("*", Leaf("2"), Leaf("3"))))

\* C20: assignment is right-associative: `a = b = c` parses as
\* Assign(left: a, right: Assign(left: b, right: c)).
C20_AssignRightAssociative ==
    (parser_pc = "done" /\ tokens \in ChainStreams
     /\ IsChainOf(tokens, {"Equal"})) =>
        ParsedAs(AssignTree(tokens, 1, NumOps(tokens) + 1))

(***************************************************************************)
(*                  CodeGenerator  (src/src/codegen/mod.rs)                *)
(*                                                                         *)
(* A generated String is the sequence of the pieces it is the              *)
(* concatenation of: a format string is cut where an argument is           *)
(* substituted, and a type name or a lexeme is a piece of its own.  g is   *)
(* what the generator reads of the parent module: [it |-> inferred_types,  *)
(* dat |-> declared_array_types].  A method returns Ok(g, pieces), or      *)
(* Panic(g).                                                               *)
(***************************************************************************)

\* t.as_c() called by the generator
type_c(g, t) == IF as_c(t).some THEN Ok(g, as_c(t).v) ELSE Panic(g)

\* CodeGenerator::get_inferred_type: inferred_types.get(&id).unwrap()
get_inferred_type(g, id) ==
    IF id \in DOMAIN g.it THEN Ok(g, g.it[id]) ELSE Panic(g)

\* the zeroes an array initializer is padded with
Zeros(pads) ==
    IF pads = 0 THEN <<>>
    ELSE [j \in 1..(2 * pads - 1) |-> IF j % 2 = 1 THEN "0" ELSE ","]

RECURSIVE gen_expression(_, _, _)
RECURSIVE gen_args_from(_, _, _)
RECURSIVE gen_fields_from(_, _, _)
RECURSIVE gen_elements_from(_, _, _, _, _)

\* CodeGenerator::gen_args, from the i-th argument on
gen_args_from(g, args, i) ==
    IF i > Len(args) THEN Ok(g, <<>>)
    ELSE Try(gen_expression(g, args[i], None), LAMBDA arg_c :
         Try(gen_args_from(g, args, i + 1), LAMBDA rest :
             Ok(g, arg_c.v \o (IF i # Len(args) THEN <<",">> ELSE <<>>) \o rest.v)))

gen_args(g, args) == gen_args_from(g, args, 1)

\* the loop over the fields of an Expr::Struct
gen_fields_from(g, fields, i) ==
    IF i > Len(fields) THEN Ok(g, <<>>)
    ELSE Try(gen_expression(g, fields[i][2], None), LAMBDA ex_c :
         Try(gen_fields_from(g, fields, i + 1), LAMBDA rest :
             Ok(g, <<".", fields[i][1].lexeme, " = ">> \o ex_c.v
                   \o (IF i # Len(fields) THEN <<",">> ELSE <<>>) \o rest.v)))

\* the loop over the elements of an Expr::Array; `len - i - 1` underflows
\* when the declared length is less than the number of elements
gen_elements_from(g, elements, i, should_pad, len) ==
    IF i > Len(elements) THEN Ok(g, <<>>)
    ELSE Try(gen_expression(g, elements[i], None), LAMBDA elem_c :
             IF i = Len(elements) /\ should_pad
             THEN IF len < i THEN Panic(g)
                  ELSE Ok(g, elem_c.v \o <<",">> \o Zeros(len - i))
             ELSE Try(gen_elements_from(g, elements, i + 1, should_pad, len),
                      LAMBDA rest :
                      Ok(g, elem_c.v
                            \o (IF i # Len(elements) THEN <<",">> ELSE <<>>)
                            \o rest.v)))

\* CodeGenerator::gen_expression
gen_expression(g, expr, left_type) ==
    CASE expr.k \in {"IntLit", "FloatLit", "Identifier"} ->
            Ok(g, <<expr.token.lexeme>>)
      [] expr.k = "ByteStringLit" ->
            Ok(g, <<"(", "__TOL_Array_uint8_t", "){\n.data = \"",
                    expr.token.lexeme, "\",\n.len = ",
                    ToString(Len(expr.token.lexeme)), "}">>)
      [] expr.k = "StringLit" -> Panic(g)
      [] expr.k = "Binary" ->
            Try(gen_expression(g, expr.left, None), LAMBDA left_c :
            Try(gen_expression(g, expr.right, None), LAMBDA right_c :
                Ok(g, <<"(">> \o left_c.v \o <<" ", expr.op.lexeme, " ">>
                      \o right_c.v \o <<")">>)))
      [] expr.k = "Assign" ->
            Try(gen_expression(g, expr.left, None), LAMBDA left_c :
            Try(gen_expression(g, expr.right, None), LAMBDA right_c :
                Ok(g, left_c.v \o <<" = ">> \o right_c.v)))
      [] expr.k = "FnCall" ->
            CASE expr.callee.k = "Identifier" ->
                    Try(gen_args(g, expr.args), LAMBDA args_c :
                        Ok(g, <<"(", expr.callee.token.lexeme, "(">> \o args_c.v
                              \o <<"))">>))
              [] expr.callee.k = "MemberAccess" ->
                    Try(gen_expression(g, expr.callee.left, None), LAMBDA left_c :
                        IF expr.args # <<>>
                        THEN Try(gen_args(g, expr.args), LAMBDA args_c :
                                 Ok(g, <<"(", expr.callee.member.lexeme, "(">>
                                       \o left_c.v \o <<", ">> \o args_c.v
                                       \o <<"))">>))
                        ELSE Ok(g, <<"(", expr.callee.member.lexeme, "(">>
                                   \o left_c.v \o <<"))">>))
              [] expr.callee.k = "ScopeResolution" ->
                    Try(gen_args(g, expr.args), LAMBDA args_c :
                        Ok(g, <<expr.callee.field.lexeme, "(">> \o args_c.v
                              \o <<")">>))
              [] OTHER -> Panic(g)
      [] expr.k = "MemberAccess" ->
            Try(gen_expression(g, expr.left, None), LAMBDA left_c :
                Ok(g, left_c.v \o <<".", expr.member.lexeme>>))
      [] expr.k = "ScopeResolution" -> Ok(g, <<expr.field.lexeme>>)
      [] expr.k = "MagicFnCall" ->
            Try(gen_args(g, expr.args), LAMBDA args_c :
                CASE expr.name.lexeme = "println" ->
                        Ok(g, <<"fputs(">> \o args_c.v \o <<", stdout)">>)
                  [] expr.name.lexeme = "print" ->
                        Ok(g, <<"puts(">> \o args_c.v \o <<")">>)
                  [] expr.name.lexeme = "alis" ->
                        Ok(g, <<"exit(">> \o args_c.v \o <<")">>)
                  [] OTHER -> Panic(g))
      [] expr.k = "Struct" ->
            Try(gen_expression(g, expr.callee, None), LAMBDA callee_c :
            Try(gen_fields_from(g, expr.fields, 1), LAMBDA fields_c :
                Ok(g, <<"(struct ">> \o callee_c.v \o <<"){ ">> \o fields_c.v
                      \o <<" }">>)))
      [] expr.k = "Array" ->
            Try(get_inferred_type(g, expr.id), LAMBDA array_type :
            Try(Ok(g, left_type.some /\ left_type.v.k = "Array"
                      /\ left_type.v.len.some), LAMBDA should_pad :
            Try(Ok(g, IF should_pad.v THEN left_type.v.len.v
                      ELSE Len(expr.elements)), LAMBDA len :
            Try(gen_elements_from(g, expr.elements, 1, should_pad.v, len.v),
                LAMBDA elements_c :
                IF array_type.v.k # "Array" THEN Panic(g)
                ELSE Try(type_c(g, array_type.v.elem), LAMBDA inner_c :
                         Ok(g, <<"(", "TOL_Array_" \o inner_c.v,
                                 "){\n    .data = (", inner_c.v, "[])", "{">>
                               \o elements_c.v
                               \o <<"}", ",\n    .len = ", ToString(len.v),
                                    "\n}">>))))))
      [] expr.k \in {"AddressOf", "MutableAddressOf"} ->
            Try(gen_expression(g, expr.of, None), LAMBDA of_c :
                Ok(g, <<"(&">> \o of_c.v \o <<")">>))
      [] expr.k = "Deref" ->
            Try(gen_expression(g, expr.right, None), LAMBDA right_c :
                Ok(g, <<"(*">> \o right_c.v \o <<")">>))
      [] OTHER -> Panic(g)

\* the names as_c returns for the types of the modelled programs
CTypeNames ==
    {as_c(Prim(k)).v : k \in {"I8", "I16", "I32", "I64", "ISukat", "U8", "U16",
                              "U32", "U64", "USukat", "Lutang", "DobleTang",
                              "Bool", "Kar", "Wala"}}
    \cup {"A", "B", "C", "Foo"}

\* CodeGenerator::declare_array_structs; the names declare_array_types
\* pushes start with TOL_Array_, so strip_prefix(..).unwrap() returns
RECURSIVE declare_array_structs(_, _)
declare_array_structs(g, i) ==
    IF i > Len(g.dat) THEN Ok(g, <<>>)
    ELSE Try(declare_array_structs(g, i + 1), LAMBDA rest :
             IF \E n \in CTypeNames : g.dat[i] = "TOL_Array_" \o n
             THEN Ok(g, <<"DEFINE_TOL_ARRAY_STRUCT(",
                          CHOOSE n \in CTypeNames : g.dat[i] = "TOL_Array_" \o n,
                          ")\n">> \o rest.v)
             ELSE Panic(g))

\* CodeGenerator::gen_params, from the i-th parameter on
RECURSIVE gen_params_from(_, _, _, _)
gen_params_from(g, params, itupad_for, i) ==
    IF i > Len(params) THEN Ok(g, <<>>)
    ELSE Try(IF params[i][2].k = "AkoType"
             THEN IF itupad_for.some
                  THEN Try(type_c(g, itupad_for.v), LAMBDA t_c :
                           Ok(g, <<t_c.v, " ", params[i][1].lexeme>>))
                  ELSE Ok(g, <<>>)
             ELSE Try(type_c(g, params[i][2]), LAMBDA t_c :
                      Ok(g, <<t_c.v, " ", params[i][1].lexeme>>)),
             LAMBDA param_c :
         Try(gen_params_from(g, params, itupad_for, i + 1), LAMBDA rest :
             Ok(g, param_c.v
                   \o (IF params[i][1].lexeme # params[Len(params)][1].lexeme
                       THEN <<",">> ELSE <<>>)
                   \o rest.v)))

gen_params(g, params, itupad_for) ==
    Try(gen_params_from(g, params, itupad_for, 1), LAMBDA c_params :
        Ok(g, <<"(">> \o c_params.v \o <<")">>))

\* the loop over the fields of a Stmt::Bagay
RECURSIVE gen_bagay_fields(_, _, _)
gen_bagay_fields(g, fields, i) ==
    IF i > Len(fields) THEN Ok(g, <<>>)
    ELSE Try(type_c(g, fields[i][2]), LAMBDA t_c :
         Try(gen_bagay_fields(g, fields, i + 1), LAMBDA rest :
             Ok(g, <<t_c.v, " ", fields[i][1].lexeme, ";">> \o rest.v)))

RECURSIVE gen_statement(_, _)
RECURSIVE gen_block_from(_, _, _)
RECURSIVE gen_methods_from(_, _, _, _)
RECURSIVE gen_branches_from(_, _, _)

\* CodeGenerator::gen_block
gen_block_from(g, statements, i) ==
    IF i > Len(statements) THEN Ok(g, <<>>)
    ELSE Try(gen_statement(g, statements[i]), LAMBDA stmt_c :
         Try(gen_block_from(g, statements, i + 1), LAMBDA rest :
             Ok(g, stmt_c.v \o rest.v)))

gen_block(g, block) ==
    IF block.k # "Block" THEN Panic(g)
    ELSE Try(gen_block_from(g, block.statements, 1), LAMBDA out :
             Ok(g, <<"{">> \o out.v \o <<"}">>))

\* CodeGenerator::gen_method
gen_method(g, method, itupad_for) ==
    IF method.k # "Method" THEN Panic(g)
    ELSE Try(type_c(g, method.return_type), LAMBDA t_c :
         Try(gen_params(g, method.params, Some(itupad_for)), LAMBDA params_c :
         Try(gen_block(g, method.block), LAMBDA block_c :
             Ok(g, <<t_c.v, " ", method.met_identifier.lexeme>> \o params_c.v
                   \o block_c.v))))

gen_methods_from(g, methods, itupad_for, i) ==
    IF i > Len(methods) THEN Ok(g, <<>>)
    ELSE Try(gen_method(g, methods[i], itupad_for), LAMBDA method_c :
         Try(gen_methods_from(g, methods, itupad_for, i + 1), LAMBDA rest :
             Ok(g, method_c.v \o rest.v)))

\* the loop over the branches of a Stmt::Kung
gen_branches_from(g, branches, i) ==
    IF i > Len(branches) THEN Ok(g, <<>>)
    ELSE Try(IF i = 1
             THEN IF ~branches[i].condition.some THEN Panic(g)
                  ELSE Try(gen_expression(g, branches[i].condition.v, None),
                           LAMBDA cond_c :
                       Try(gen_block(g, branches[i].block), LAMBDA block_c :
                           Ok(g, <<"if (">> \o cond_c.v \o <<")">> \o block_c.v)))
             ELSE IF branches[i].condition.some
             THEN Try(gen_expression(g, branches[i].condition.v, None),
                      LAMBDA cond_c :
                  Try(gen_block(g, branches[i].block), LAMBDA block_c :
                      Ok(g, <<"else if (">> \o cond_c.v \o <<")">> \o block_c.v)))
             ELSE Try(gen_block(g, branches[i].block), LAMBDA block_c :
                      Ok(g, <<"else ">> \o block_c.v)),
             LAMBDA branch_c :
         Try(gen_branches_from(g, branches, i + 1), LAMBDA rest :
             Ok(g, branch_c.v \o rest.v)))

\* CodeGenerator::gen_statement
gen_statement(g, stmt) ==
    CASE stmt.k = "Ang" ->
            Try(IF stmt.ang_type.k = "Unknown" THEN get_inferred_type(g, stmt.id)
                ELSE Ok(g, stmt.ang_type), LAMBDA ang_type :
            Try(type_c(g, ang_type.v), LAMBDA t_c :
            Try(gen_expression(g, stmt.rhs, Some(ang_type.v)), LAMBDA rhs_c :
                Ok(g, <<t_c.v, " ">>
                      \o (IF ~stmt.mutable THEN <<"const ">> ELSE <<>>)
                      \o <<" ", stmt.ang_identifier.lexeme, " = ">> \o rhs_c.v
                      \o <<";">>))))
      [] stmt.k = "Par" ->
            Try(type_c(g, stmt.return_type), LAMBDA t_c :
            Try(gen_params(g, stmt.params, None), LAMBDA params_c :
            Try(gen_block(g, stmt.block), LAMBDA block_c :
                Ok(g, <<t_c.v, " ",
                        IF stmt.par_identifier.lexeme = "una" THEN "__TOL_main__"
                        ELSE stmt.par_identifier.lexeme>>
                      \o params_c.v \o block_c.v))))
      [] stmt.k = "Ibalik" ->
            Try(gen_expression(g, stmt.rhs, None), LAMBDA rhs_c :
                Ok(g, <<"return ">> \o rhs_c.v \o <<";">>))
      [] stmt.k = "ExprS" ->
            Try(gen_expression(g, stmt.expr, None), LAMBDA expr_c :
                Ok(g, expr_c.v \o <<";">>))
      [] stmt.k = "Bagay" ->
            Try(gen_bagay_fields(g, stmt.fields, 1), LAMBDA fields_c :
                Ok(g, <<"typedef struct ", stmt.bagay_identifier.lexeme, "{">>
                      \o fields_c.v
                      \o <<"}", stmt.bagay_identifier.lexeme, ";">>))
      [] stmt.k = "Itupad" ->
            IF stmt.itupad_block.k # "ItupadBlock" THEN Panic(g)
            ELSE gen_methods_from(g, stmt.itupad_block.methods, stmt.itupad_for, 1)
      [] stmt.k = "Kung" -> gen_branches_from(g, stmt.branches, 1)
      [] stmt.k = "Sa" ->
            IF stmt.iterator.k \in {"RangeExclusive", "RangeInclusive"}
            THEN Try(get_inferred_type(g, stmt.id), LAMBDA bind_t :
                 Try(type_c(g, bind_t.v), LAMBDA bind_type :
                 Try(gen_expression(g, stmt.iterator.start, None), LAMBDA start_c :
                 Try(gen_expression(g, stmt.iterator.end, None), LAMBDA end_c :
                 Try(gen_block(g, stmt.block), LAMBDA block_c :
                     Ok(g, <<"for (", bind_type.v, " ", stmt.bind.lexeme, " = ">>
                           \o start_c.v
                           \o <<"; ", stmt.bind.lexeme,
                                IF stmt.iterator.k = "RangeExclusive" THEN " < "
                                ELSE " <= ">>
                           \o end_c.v
                           \o <<"; ", stmt.bind.lexeme, "++) ">> \o block_c.v))))))
            ELSE Panic(g)
      [] OTHER -> Ok(g, <<>>)

\* the two loops of CodeGenerator::gen_statements
RECURSIVE gen_where(_, _, _, _)
gen_where(g, statements, bagay, i) ==
    IF i > Len(statements) THEN Ok(g, <<>>)
    ELSE IF (statements[i].k = "Bagay") # bagay
    THEN gen_where(g, statements, bagay, i + 1)
    ELSE Try(gen_statement(g, statements[i]), LAMBDA stmt_c :
         Try(gen_where(g, statements, bagay, i + 1), LAMBDA rest :
             Ok(g, stmt_c.v \o rest.v)))

\* CodeGenerator::gen_statements
gen_statements(g, statements) ==
    Try(gen_where(g, statements, TRUE, 1), LAMBDA bagays :
    Try(declare_array_structs(g, 1), LAMBDA array_structs :
    Try(gen_where(g, statements, FALSE, 1), LAMBDA others :
        Ok(g, bagays.v \o <<"\n">> \o array_structs.v \o others.v))))

\* CodeGenerator::new and CodeGenerator::generate
generate(g, statements) ==
    Try(gen_statements(g, statements), LAMBDA statements_c :
        Ok(g, <<"#include<stdio.h>\n#include<stdlib.h>\n",
                "#include \"tol_helper.h\"\n">>
              \o statements_c.v
              \o <<"int main(){__TOL_main__();return 0;}">>))

(***************************************************************************)
(*                    SPECIFICATION: the driver, compile()                 *)
(*                                                                         *)
(* compile() on a source text: every source of up to MaxDriverSrcLen       *)
(* characters of the alphabet, and the long sources.  The lexer, the       *)
(* parser and the analyzer run as in their own specifications; a panic or  *)
(* a hang of a stage ends the process where it is.  stages lists the       *)
(* components in the order compile() has seen them through.                *)
(***************************************************************************)

MaxDriverSrcLen == 3

\* let mut lexer = Lexer::new(..); lexer.lex() has returned;
\* should_compile |= lexer.has_error(); let mut parser = Parser::new(..)
DriverLexed ==
    /\ driver_pc = "lexer" /\ lexer_pc = "done"
    /\ should_compile' = (should_compile \/ lexer_has_error)
    /\ stages' = Append(stages, "Lexer")
    /\ driver_pc' = "parser"
    /\ parser_current' = 0 /\ ast_id' = 0 /\ parser_has_error' = FALSE
    /\ parser_shown' = 0 /\ parser_pc' = "parsing"
    /\ UNCHANGED <<source_code, tokens, restOfModule, lexerVars, analyzerVars,
                   output, probe>>

\* should_compile is overwritten by the parser's flag
DriverParsed_Overwrite ==
    /\ driver_pc = "parser" /\ parser_pc = "done"
    /\ should_compile' = parser_has_error
    /\ stages' = Append(stages, "Parser")
    /\ driver_pc' = "analyzer"
    /\ symbol_table' = declare_magic_funcs(symbol_table)
    /\ type_table' = declare_primitive_types(type_table)
    /\ analyzer_has_error' = FALSE
    /\ current_func_return_type' = Prim("Unknown")
    /\ analyzer_shown' = 0 /\ analyzer_pc' = "pass1" /\ analyzer_i' = 1
    /\ last' = [res |-> "none"]
    /\ UNCHANGED <<source_code, tokens, ast, inferred_types, declared_array_types,
                   lexerVars, parserVars, output, probe>>

\* parser.parse() has returned; should_compile |= parser.has_error();
\* let mut analyzer = SemanticAnalyzer::new(..)
DriverParsed ==
    /\ driver_pc = "parser" /\ parser_pc = "done"
    /\ should_compile' = (should_compile \/ parser_has_error)
    /\ stages' = Append(stages, "Parser")
    /\ driver_pc' = "analyzer"
    /\ symbol_table' = declare_magic_funcs(symbol_table)
    /\ type_table' = declare_primitive_types(type_table)
    /\ analyzer_has_error' = FALSE
    /\ current_func_return_type' = Prim("Unknown")
    /\ analyzer_shown' = 0 /\ analyzer_pc' = "pass1" /\ analyzer_i' = 1
    /\ last' = [res |-> "none"]
    /\ UNCHANGED <<source_code, tokens, ast, inferred_types, declared_array_types,
                   lexerVars, parserVars, output, probe>>

\* analyzer.analyze() has returned; should_compile |= analyzer.has_error();
\* if !should_compile
DriverAnalyzed ==
    /\ driver_pc = "analyzer" /\ analyzer_pc = "done"
    /\ should_compile' = (should_compile \/ analyzer_has_error)
    /\ stages' = Append(stages, "SemanticAnalyzer")
    /\ driver_pc' = IF ~should_compile' THEN "codegen" ELSE "done"
    /\ UNCHANGED <<source_code, tokens, restOfModule, lexerVars, parserVars,
                   analyzerVars, output, probe>>

\* what generate() leaves: the output, or the process is over when it panics
Generated(c_code) ==
    /\ output' = IF c_code.res = "Ok" THEN c_code.v ELSE <<>>
    /\ driver_pc' = IF c_code.res = "Ok" THEN "done" ELSE "panic"

\* codegen.generate() and compile_c(c_code)
DriverGenerate ==
    /\ driver_pc = "codegen"
    /\ stages' = Append(stages, "CodeGenerator")
    /\ Generated(generate([it |-> inferred_types, dat |-> declared_array_types],
                          ast))
    /\ UNCHANGED <<source_code, tokens, restOfModule, lexerVars, parserVars,
                   analyzerVars, should_compile, probe>>

InitDriver ==
    /\ source_code \in SeqsUpTo(Alphabet, MaxDriverSrcLen) \cup LongSources
    /\ ModuleNew
    /\ LexerInit
    /\ ParserIdle /\ AnalyzerIdle
    /\ should_compile = FALSE /\ driver_pc = "lexer" /\ stages = <<>>
    /\ output = <<>> /\ probe = [fn |-> "none"]

NextDriver ==
    \/ LexSingle \/ LexOperator \/ LexSlash \/ LexWhitespace \/ LexNewline
    \/ LexString \/ LexIdentifier \/ LexNumber \/ LexInvalid \/ LexFinish
    \/ DriverLexed
    \/ ParseStatement \/ ParseReturn
    \/ DriverParsed
    \/ CollectBagay \/ CollectSkip \/ SecondPass
    \/ AnalyzeStmt \/ AnalyzeSkip \/ AnalyzeReturn
    \/ DriverAnalyzed
    \/ DriverGenerate

SpecDriver == InitDriver /\ [][NextDriver]_vars

(***************************************************************************)
(*                       Properties of the driver                          *)
(***************************************************************************)

\* a stage has started
Started(pc) == pc # "idle"

\* C4: compile() runs the Lexer, the Parser and the SemanticAnalyzer in that
\* order, each to completion before the next starts, and it invokes
\* CodeGenerator::generate if and only if none of the three stages reported
\* has_error.
C4_StagesInOrderCodegenIffNoError ==
    /\ Started(parser_pc) => lexer_pc = "done"
    /\ Started(analyzer_pc) => (lexer_pc = "done" /\ parser_pc = "done")
    /\ \E n \in 0..4 :
          stages = SubSeq(<<"Lexer", "Parser", "SemanticAnalyzer", "CodeGenerator">>,
                          1, n)
    /\ Len(stages) = 4 => analyzer_pc = "done"
    /\ driver_pc = "done" =>
          ( Len(stages) = 4
              <=> ~(lexer_has_error \/ parser_has_error \/ analyzer_has_error) )

C4_Witness ==
    /\ driver_pc = "done"
    /\ stages = <<"Lexer", "Parser", "SemanticAnalyzer", "CodeGenerator">>
    /\ source_code = <<"1", NL>>

(***************************************************************************)
(*              TolType's functions applied to bounded types               *)
(***************************************************************************)

MaxArrayLen == 2

ScalarTypes ==
    {Prim(k) : k \in {"I8", "I16", "I32", "I64", "ISukat", "U8", "U16", "U32",
                      "U64", "USukat", "Lutang", "DobleTang", "Bool", "Kar",
                      "Wala", "UnsizedInt", "UnsizedFloat", "Unknown",
                      "AkoType"}}
    \cup {Bagay("B"), UnknownIdentifier("B")}

ArrayLens == {None} \cup {Some(n) : n \in 0..MaxArrayLen}

NestedElems == {Prim("I32"), Prim("UnsizedInt")}

ProbeTypes ==
    ScalarTypes
    \cup {Array(e, l) : e \in ScalarTypes, l \in ArrayLens}
    \cup {Array(Array(e, l1), l2) : e \in NestedElems, l1 \in ArrayLens,
                                    l2 \in ArrayLens}

\* rhs_type.is_assignment_compatible(&ang_type, ..): self is the right-hand
\* type and other the target
CallIsAssignmentCompatible ==
    /\ probe.fn = "none"
    /\ probe' = [probe EXCEPT !.fn = "is_assignment_compatible",
                   !.result = is_assignment_compatible(probe.self, probe.other)]
    /\ UNCHANGED <<source_code, tokens, restOfModule, lexerVars, parserVars,
                   analyzerVars, should_compile, driver_pc, stages, output>>

\* ang_type.as_c(); result None is the panic
CallAsC ==
    /\ probe.fn = "none"
    /\ probe' = [probe EXCEPT !.fn = "as_c", !.result = as_c(probe.self)]
    /\ UNCHANGED <<source_code, tokens, restOfModule, lexerVars, parserVars,
                   analyzerVars, should_compile, driver_pc, stages, output>>

InitType ==
    /\ source_code = <<>>
    /\ ModuleNew
    /\ LexerInit
    /\ ParserIdle /\ AnalyzerIdle
    /\ should_compile = FALSE /\ driver_pc = "idle" /\ stages = <<>>
    /\ output = <<>>
    /\ probe \in {[fn |-> "none", self |-> s, other |-> o, result |-> "none"] :
                    s \in ProbeTypes, o \in ProbeTypes}

NextType == CallIsAssignmentCompatible \/ CallAsC

SpecType == InitType /\ [][NextType]_vars

\* C13: a right-hand Array(e1, len_r) is assignment-compatible with a target
\* Array(e2, len_l) if and only if e1 is compatible with e2 and either both
\* lengths are None, or both are given and len_r <= len_l, or len_l is None and
\* len_r is a non-zero length; every other combination of lengths is rejected.
C13_ArrayCompatibility ==
    (/\ probe.fn = "is_assignment_compatible"
     /\ probe.self.k = "Array" /\ probe.other.k = "Array") =>
        LET len_r == probe.self.len
            len_l == probe.other.len
        IN  (probe.result = "Ok") <=>
                /\ is_assignment_compatible(probe.self.elem, probe.other.elem)
                     = "Ok"
                /\ \/ ~len_l.some /\ ~len_r.some
                   \/ len_l.some /\ len_r.some /\ len_r.v <= len_l.v
                   \/ ~len_l.some /\ len_r.some /\ len_r.v # 0

\* The mapping table of the specification: TolType to C type name
CNameTable ==
    [I8 |-> "int8_t", I16 |-> "int16_t", I32 |-> "int32_t", I64 |-> "int64_t",
     ISukat |-> "ptrdiff_t", U8 |-> "uint8_t", U16 |-> "uint16_t",
     U32 |-> "uint32_t", U64 |-> "uint64_t", USukat |-> "size_t",
     Lutang |-> "float", DobleTang |-> "double", Bool |-> "bool",
     Kar |-> "char", Wala |-> "void"]

\* The C name the table gives a type, None where the table has no row
RECURSIVE TableCName(_)
TableCName(t) ==
    IF t.k \in DOMAIN CNameTable THEN Some(CNameTable[t.k])
    ELSE IF t.k \in {"Bagay", "UnknownIdentifier"} THEN Some(t.name)
    ELSE IF t.k = "Array" /\ TableCName(t.elem).some
    THEN Some("TOL_Array_" \o TableCName(t.elem).v)
    ELSE None

\* What declare_array_types registers for a type, starting from no
\* registered names
RegisteredFor(t) == declare_array_types([dat |-> <<>>], t)

\* C18: as_c maps every primitive type to the C name of the mapping table,
\* Bagay(name) and UnknownIdentifier(name) to name, and Array(T, _) to
\* TOL_Array_ followed by the C name of T, so that the C type of an
\* array-typed binding is the name declare_array_types registers for it.
C18_AsCFollowsTable ==
    (probe.fn = "as_c" /\ TableCName(probe.self).some) =>
        /\ probe.result = TableCName(probe.self)
        /\ (probe.self.k = "Array" /\ RegisteredFor(probe.self).res = "Ok") =>
               LET dat == RegisteredFor(probe.self).a.dat
               IN  probe.result = Some(dat[Len(dat)])

(***************************************************************************)
(*          SPECIFICATION: compile() from the analyzer on                  *)
(*                                                                         *)
(* compile() after the lexer and the parser returned without an error:     *)
(* the module's statements are drawn from a pool, the analyzer runs, and   *)
(* generate() runs when the analyzer reported no error.                    *)
(***************************************************************************)

ArrayLit(elements, id) == [k |-> "Array", elements |-> elements, id |-> id]
ByteStringLit(lexeme, id) ==
    [k |-> "ByteStringLit", token |-> Token(lexeme, "ByteStringLit", 1, 1), id |-> id]
MagicFnCall(name, args, id) ==
    [k |-> "MagicFnCall", name |-> Ident(name), args |-> args, id |-> id]

GenPool ==
    { \* bagay B { x: i32 }
      BagayStmt("B", <<<<Ident("x"), Prim("I32")>>>>, 32),
      \* ang x: i32 = 15
      Ang(FALSE, "x", Prim("I32"), IntLit("15", 3), 4),
      \* ang maiba y = 1.5
      Ang(TRUE, "y", Prim("Unknown"), FloatLit("1.5", 5), 6),
      \* paraan una() { ang a: [3]i32 = [1, 2] }
      Par("una", <<>>, Prim("Wala"),
          Block(<<Ang(FALSE, "a", Array(Prim("I32"), Some(3)),
                      ArrayLit(<<IntLit("1", 83), IntLit("2", 84)>>, 85), 86)>>, 87),
          88),
      \* ang b: [2]i32 = [x]
      Ang(FALSE, "b", Array(Prim("I32"), Some(2)),
          ArrayLit(<<Identifier("x", 89)>>, 90), 91),
      \* ang c: [1]i32 = [x]
      Ang(FALSE, "c", Array(Prim("I32"), Some(1)),
          ArrayLit(<<Identifier("x", 92)>>, 93), 94),
      \* [x]
      ExprS(ArrayLit(<<Identifier("x", 95)>>, 96), 97),
      \* @print(b"a")
      ExprS(MagicFnCall("print", <<ByteStringLit("a", 98)>>, 99), 100),
      \* @println(b"b")
      ExprS(MagicFnCall("println", <<ByteStringLit("b", 101)>>, 102), 103),
      \* @alis(1)
      ExprS(MagicFnCall("alis", <<IntLit("1", 104)>>, 105), 106),
      \* paraan g(v: []i32) { }
      Par("g", <<<<Ident("v"), Array(Prim("I32"), None)>>>>, Prim("Wala"),
          Block(<<>>, 107), 108),
      \* itupad B { paraan n() i32 { ibalik 1 } }
      Itupad(UnknownIdentifier("B"),
             <<MethodStmt(TRUE, "n", <<>>, Prim("I32"),
                          Block(<<Ibalik(IntLit("1", 38), 39)>>, 40), 41)>>, 43),
      \* sa 0..3 => i { i }
      [k |-> "Sa",
       iterator |-> [k |-> "RangeExclusive", start |-> IntLit("0", 48),
                     end |-> IntLit("3", 49), id |-> 50],
       bind |-> Ident("i"),
       block |-> Block(<<ExprS(Identifier("i", 51), 52)>>, 53), id |-> 54] }

\* the modules of up to MaxStmts distinct statements of the pool
GenPrograms ==
    {p \in SeqsUpTo(GenPool, MaxStmts) :
        \A i, j \in 1..Len(p) : i # j => p[i] # p[j]}

InitGen ==
    /\ source_code = <<>> /\ tokens = <<>>
    /\ ast \in GenPrograms
    /\ start = 0 /\ current = 0 /\ line = 1 /\ column = 1 /\ start_column = 1
    /\ lexer_has_error = FALSE /\ lexer_pc = "done"
    /\ parser_current = 0 /\ ast_id = 0 /\ parser_has_error = FALSE
    /\ parser_shown = 0 /\ parser_pc = "done"
    /\ AnalyzerNew
    /\ should_compile = FALSE /\ driver_pc = "analyzer"
    /\ stages = <<"Lexer", "Parser">>
    /\ output = <<>> /\ probe = [fn |-> "none"]

NextGen ==
    \/ CollectBagay \/ CollectSkip \/ SecondPass
    \/ AnalyzeStmt \/ AnalyzeSkip \/ AnalyzeReturn
    \/ DriverAnalyzed
    \/ DriverGenerate

SpecGen == InitGen /\ [][NextGen]_vars

(***************************************************************************)
(*                   Properties of the code generator                      *)
(***************************************************************************)

\* generate() was invoked and is over, by returning or by a panic
GenerateOver == Len(stages) = 4 /\ driver_pc \in {"done", "panic"}

\* sub is a run of consecutive pieces of out
Contains(out, sub) ==
    \E i \in 1..(Len(out) - Len(sub) + 1) : SubSeq(out, i, i + Len(sub) - 1) = sub

Range(f) == {f[i] : i \in DOMAIN f}

\* the statements of the module and of the bodies of its functions
WithBodies(statements) ==
    Range(statements)
    \cup UNION {Range(s.block.statements) : s \in {t \in Range(statements) : t.k = "Par"}}

\* `ang a: [n]T = [e1, ..., ek]` with 1 <= k <= n, the elements being
\* literals or names
IsSizedArrayBinding(s) ==
    /\ s.k = "Ang" /\ s.ang_type.k = "Array" /\ s.ang_type.len.some
    /\ s.rhs.k = "Array"
    /\ Len(s.rhs.elements) \in 1..s.ang_type.len.v
    /\ \A i \in 1..Len(s.rhs.elements) :
          s.rhs.elements[i].k \in {"IntLit", "Identifier"}

\* the n entries the initializer of s is to have: the elements, then zeros,
\* with the commas between them
Entries(s) ==
    [j \in 1..(2 * s.ang_type.len.v - 1) |->
        IF j % 2 = 0 THEN ","
        ELSE IF (j + 1) \div 2 <= Len(s.rhs.elements)
             THEN s.rhs.elements[(j + 1) \div 2].token.lexeme
             ELSE "0"]

\* out holds, from piece i on, the initializer of s: the struct name, the
\* element type, the entries between braces (a comma may trail) and the length
InitializerAt(out, i, s) ==
    LET t_c == TableCName(s.ang_type.elem).v
        n == Len(Entries(s))
        close == IF i + 5 + n <= Len(out) /\ out[i + 5 + n] = "," THEN i + 6 + n
                 ELSE i + 5 + n
    IN  /\ close + 2 <= Len(out)
        /\ out[i] = "TOL_Array_" \o t_c
        /\ out[i + 2] = t_c
        /\ out[i + 4] = "{"
        /\ SubSeq(out, i + 5, i + 4 + n) = Entries(s)
        /\ out[close] = "}"
        /\ out[close + 2] = ToString(s.ang_type.len.v)

\* C15: for a binding `ang a: [n]T = [e1, ..., ek]` with 1 <= k <= n that
\* passes analysis, code generation completes and emits an initializer with
\* exactly n entries, the k elements in source order followed by n-k zeros,
\* with .len = n and the struct name TOL_Array_ followed by the C name of T,
\* and that struct name is registered.
C15_ArrayInitializerPadded ==
    GenerateOver =>
        \A s \in WithBodies(ast) :
            IsSizedArrayBinding(s) =>
                /\ driver_pc = "done"
                /\ \E i \in 1..Len(output) : InitializerAt(output, i, s)
                /\ ("TOL_Array_" \o TableCName(s.ang_type.elem).v)
                       \in Range(declared_array_types)

\* C16: for every program that passes analysis, each array struct name
\* TOL_Array_<T> in the emitted C is registered in declared_array_types, and
\* exactly one DEFINE_TOL_ARRAY_STRUCT(T) is emitted for it.
C16_ArrayStructsDeclared ==
    (GenerateOver /\ driver_pc = "done") =>
        \A n \in CTypeNames :
            ("TOL_Array_" \o n) \in Range(output) =>
                /\ ("TOL_Array_" \o n) \in Range(declared_array_types)
                /\ Cardinality({i \in 1..(Len(output) - 1) :
                       /\ output[i] = "DEFINE_TOL_ARRAY_STRUCT("
                       /\ output[i + 1] = n}) = 1

\* what the specification lowers an intrinsic call with the argument text
\* arg_c to
IntrinsicLowering(name, arg_c) ==
    CASE name = "print" -> <<"fputs(">> \o arg_c \o <<", stdout)">>
      [] name = "println" -> <<"puts(">> \o arg_c \o <<")">>
      [] name = "alis" -> <<"exit(">> \o arg_c \o <<")">>

\* C17: code generation lowers @print(s) to fputs(s, stdout), @println(s) to
\* puts(s) and @alis(n) to exit(n).
C17_IntrinsicsLowered ==
    (GenerateOver /\ driver_pc = "done") =>
        \A s \in Range(ast) :
            (s.k = "ExprS" /\ s.expr.k = "MagicFnCall") =>
                Contains(output,
                         IntrinsicLowering(
                             s.expr.name.lexeme,
                             gen_args([it |-> inferred_types,
                                       dat |-> declared_array_types],
                                      s.expr.args).v))

(***************************************************************************)
(*        SPECIFICATION: the analyzer run twice on the same Module         *)
(***************************************************************************)

\* analyze() has returned for the first time: a second SemanticAnalyzer::new
\* on the same Module, ready to analyze().  probe keeps what the first run
\* left in the Module.
AnalyzeAgain ==
    /\ analyzer_pc = "done" /\ probe.fn = "none"
    /\ probe' = [fn |-> "analyze", st |-> symbol_table, tt |-> type_table,
                 it |-> inferred_types, dat |-> declared_array_types,
                 has_error |-> analyzer_has_error]
    /\ symbol_table' = declare_magic_funcs(symbol_table)
    /\ type_table' = declare_primitive_types(type_table)
    /\ analyzer_has_error' = FALSE
    /\ current_func_return_type' = Prim("Unknown")
    /\ analyzer_shown' = 0 /\ analyzer_pc' = "pass1" /\ analyzer_i' = 1
    /\ last' = [res |-> "none"]
    /\ UNCHANGED <<source_code, tokens, ast, inferred_types, declared_array_types,
                   lexerVars, parserVars, should_compile, driver_pc, stages,
                   output>>

NextTwice ==
    \/ CollectBagay \/ CollectSkip \/ SecondPass
    \/ AnalyzeStmt \/ AnalyzeSkip \/ AnalyzeReturn
    \/ AnalyzeAgain

SpecTwice == InitSem /\ [][NextTwice]_vars

\* the second analyze() has returned
AnalyzedTwice == analyzer_pc = "done" /\ probe.fn = "analyze"

\* C22: constructing a SemanticAnalyzer and running analyze() a second time
\* on the same parsed Module leaves symbol_table, type_table, inferred_types
\* and declared_array_types equal to their values after the first run.
C22_AnalyzeIdempotent ==
    AnalyzedTwice =>
        /\ symbol_table = probe.st
        /\ type_table = probe.tt
        /\ inferred_types = probe.it
        /\ declared_array_types = probe.dat

(***************************************************************************)
(*        The analyzer on sequences of array-typed bindings                *)
(***************************************************************************)

MaxBindings == 3

\* The bindings a module of this specification is made of:
BindingPool ==
    { \* bagay B { x: i32 }
      BagayStmt("B", <<<<Ident("x"), Prim("I32")>>>>, 32),
      \* ang x: i32 = 15
      Ang(FALSE, "x", Prim("I32"), IntLit("15", 3), 4),
      \* ang a: []i32 = [1]
      Ang(FALSE, "a", Array(Prim("I32"), None),
          ArrayLit(<<IntLit("1", 110)>>, 111), 112),
      \* ang b: [2]i32 = [1, 2]
      Ang(FALSE, "b", Array(Prim("I32"), Some(2)),
          ArrayLit(<<IntLit("1", 113), IntLit("2", 114)>>, 115), 116),
      \* ang c: []i64 = [1]
      Ang(FALSE, "c", Array(Prim("I64"), None),
          ArrayLit(<<IntLit("1", 117)>>, 118), 119),
      \* ang m: [][]i32 = [[1]]
      Ang(FALSE, "m", Array(Array(Prim("I32"), None), None),
          ArrayLit(<<ArrayLit(<<IntLit("1", 120)>>, 121)>>, 122), 123),
      \* ang n: [][]i64 = [[1]]
      Ang(FALSE, "n", Array(Array(Prim("I64"), None), None),
          ArrayLit(<<ArrayLit(<<IntLit("1", 124)>>, 125)>>, 126), 127),
      \* ang f: []lutang = [1.5]
      Ang(FALSE, "f", Array(Prim("Lutang"), None),
          ArrayLit(<<FloatLit("1.5", 128)>>, 129), 130) }

BindingPrograms ==
    {p \in SeqsUpTo(BindingPool, MaxBindings) :
        \A i, j \in 1..Len(p) : i # j => p[i] # p[j]}

InitBindings ==
    /\ source_code = <<>> /\ tokens = <<>>
    /\ ast \in BindingPrograms
    /\ start = 0 /\ current = 0 /\ line = 1 /\ column = 1 /\ start_column = 1
    /\ lexer_has_error = FALSE /\ lexer_pc = "done"
    /\ parser_current = 0 /\ ast_id = 0 /\ parser_has_error = FALSE
    /\ parser_shown = 0 /\ parser_pc = "done"
    /\ AnalyzerNew
    /\ DriverIdle

SpecBindings == InitBindings /\ [][NextSem]_vars

\* the entry declare_array_types pushes for an array of this element type
EntryOf(elem) == "TOL_Array_" \o as_c(elem).v

\* the entries of the element types of a type, innermost first
RECURSIVE EntriesOf(_)
EntriesOf(t) ==
    IF t.k # "Array" THEN <<>> ELSE Append(EntriesOf(t.elem), EntryOf(t.elem))

\* the entries of the array-typed bindings of a module, in source order
RECURSIVE Encountered(_)
Encountered(p) ==
    IF p = <<>> THEN <<>>
    ELSE Encountered(SubSeq(p, 1, Len(p) - 1))
         \o (IF p[Len(p)].k = "Ang" THEN EntriesOf(p[Len(p)].ang_type) ELSE <<>>)

\* a sequence without the repetitions of its elements
RECURSIVE FirstOccurrences(_)
FirstOccurrences(s) ==
    IF s = <<>> THEN <<>>
    ELSE LET before == FirstOccurrences(SubSeq(s, 1, Len(s) - 1))
         IN  IF \E i \in 1..Len(before) : before[i] = s[Len(s)]
             THEN before ELSE Append(before, s[Len(s)])

NoEntryTwice ==
    \A i, j \in 1..Len(declared_array_types) :
        i # j => declared_array_types[i] # declared_array_types[j]

InEncounterOrder ==
    (analyzer_pc = "done" /\ ~analyzer_has_error)
        => declared_array_types = FirstOccurrences(Encountered(ast))

\* the binding just analyzed has a nested array type, and its inner element
\* type has an entry before the entry of its outer element type
InnerBeforeOuter ==
    ( /\ Analyzed /\ last.res = "Ok" /\ last.stmt.k = "Ang"
      /\ last.stmt.ang_type.k = "Array" /\ last.stmt.ang_type.elem.k = "Array" )
    => \E i, j \in 1..Len(declared_array_types) :
           /\ i < j
           /\ declared_array_types[i] = EntryOf(last.stmt.ang_type.elem.elem)
           /\ declared_array_types[j] = EntryOf(last.stmt.ang_type.elem)

\* C23: after any sequence of analyzed bindings declared_array_types has no
\* entry twice and its entries are in the order the element types were first
\* met in the source (so a binding whose element type is registered adds
\* nothing), and a binding of nested array type registers its inner element
\* type before its outer element type.
C23_ArrayTypesRegisteredOnce ==
    NoEntryTwice /\ InEncounterOrder /\ InnerBeforeOuter

(***************************************************************************)
(*      The analyzer and the code generator on array literals              *)
(***************************************************************************)

MaxLits == 2

\* The statements a module of this specification is made of:
LiteralPool ==
    { \* bagay B { x: i32 }
      BagayStmt("B", <<<<Ident("x"), Prim("I32")>>>>, 32),
      \* ang x: i32 = 15
      Ang(FALSE, "x", Prim("I32"), IntLit("15", 3), 4),
      \* ang maiba y = 1.5
      Ang(TRUE, "y", Prim("Unknown"), FloatLit("1.5", 5), 6),
      \* sa 0..3 => i { i }
      [k |-> "Sa",
       iterator |-> [k |-> "RangeExclusive", start |-> IntLit("0", 48),
                     end |-> IntLit("3", 49), id |-> 50],
       bind |-> Ident("i"),
       block |-> Block(<<ExprS(Identifier("i", 51), 52)>>, 53), id |-> 54],
      \* ang p = [x, x]
      Ang(FALSE, "p", Prim("Unknown"),
          ArrayLit(<<Identifier("x", 131), Identifier("x", 132)>>, 133), 134),
      \* ang q: [][]i32 = [[1], [2]]
      Ang(FALSE, "q", Array(Array(Prim("I32"), None), None),
          ArrayLit(<<ArrayLit(<<IntLit("1", 135)>>, 136),
                     ArrayLit(<<IntLit("2", 137)>>, 138)>>, 139), 140),
      \* [x, z]
      ExprS(ArrayLit(<<Identifier("x", 141), Identifier("z", 142)>>, 143), 144),
      \* [z, x]
      ExprS(ArrayLit(<<Identifier("z", 145), Identifier("x", 146)>>, 147), 148),
      \* [1, b"a"]
      ExprS(ArrayLit(<<IntLit("1", 149), ByteStringLit("a", 150)>>, 151), 152),
      \* [1, b"a", 1]
      ExprS(ArrayLit(<<IntLit("1", 153), ByteStringLit("a", 154),
                       IntLit("1", 155)>>, 156), 157),
      \* [x, z, x]
      ExprS(ArrayLit(<<Identifier("x", 158), Identifier("z", 159),
                       Identifier("x", 160)>>, 161), 162),
      \* [1, 2, 3]
      ExprS(ArrayLit(<<IntLit("1", 163), IntLit("2", 164), IntLit("3", 165)>>,
                     166), 167),
      \* [[1], [2]]
      ExprS(ArrayLit(<<ArrayLit(<<IntLit("1", 168)>>, 169),
                       ArrayLit(<<IntLit("2", 170)>>, 171)>>, 172), 173),
      \* "a"
      ExprS([k |-> "StringLit", token |-> Token("a", "StringLit", 1, 1), id |-> 174],
            175),
      \* paraan f() { }
      Par("f", <<>>, Prim("Wala"), Block(<<>>, 176), 177),
      \* f = 1
      ExprS([k |-> "Assign", left |-> Identifier("f", 178), right |-> IntLit("1", 179),
             id |-> 180], 181),
      \* &maiba f
      ExprS([k |-> "MutableAddressOf", of |-> Identifier("f", 182), id |-> 183], 184),
      \* B = 1
      ExprS([k |-> "Assign", left |-> Identifier("B", 185), right |-> IntLit("1", 186),
             id |-> 187], 188) }

LiteralPrograms ==
    {p \in SeqsUpTo(LiteralPool, MaxLits) :
        \A i, j \in 1..Len(p) : i # j => p[i] # p[j]}

InitLiterals ==
    /\ source_code = <<>> /\ tokens = <<>>
    /\ ast \in LiteralPrograms
    /\ start = 0 /\ current = 0 /\ line = 1 /\ column = 1 /\ start_column = 1
    /\ lexer_has_error = FALSE /\ lexer_pc = "done"
    /\ parser_current = 0 /\ ast_id = 0 /\ parser_has_error = FALSE
    /\ parser_shown = 0 /\ parser_pc = "done"
    /\ AnalyzerNew
    /\ should_compile = FALSE /\ driver_pc = "analyzer"
    /\ stages = <<"Lexer", "Parser">>
    /\ output = <<>> /\ probe = [fn |-> "none"]

SpecLiterals == InitLiterals /\ [][NextGen]_vars

\* the ids code generation looks up in inferred_types for an expression: the
\* ids of the array literals in it
RECURSIVE LookupsOfExpr(_)
LookupsOfExpr(e) ==
    CASE e.k = "Array" ->
            {e.id} \cup UNION {LookupsOfExpr(e.elements[i]) : i \in DOMAIN e.elements}
      [] e.k = "MagicFnCall" ->
            UNION {LookupsOfExpr(e.args[i]) : i \in DOMAIN e.args}
      [] e.k \in {"RangeExclusive", "RangeInclusive"} ->
            LookupsOfExpr(e.start) \cup LookupsOfExpr(e.end)
      [] OTHER -> {}

\* and for a statement: also the id of an `ang` of omitted type and of a `sa`
RECURSIVE LookupsOfStmt(_)
LookupsOfStmt(s) ==
    CASE s.k = "Ang" ->
            (IF s.ang_type.k = "Unknown" THEN {s.id} ELSE {}) \cup LookupsOfExpr(s.rhs)
      [] s.k = "ExprS" -> LookupsOfExpr(s.expr)
      [] s.k = "Ibalik" -> LookupsOfExpr(s.rhs)
      [] s.k = "Sa" ->
            {s.id} \cup LookupsOfExpr(s.iterator) \cup LookupsOfStmt(s.block)
      [] s.k = "Par" -> LookupsOfStmt(s.block)
      [] s.k = "Block" ->
            UNION {LookupsOfStmt(s.statements[i]) : i \in DOMAIN s.statements}
      [] OTHER -> {}

\* C24: after an analysis that reports no error inferred_types has an entry
\* for the id of every `ang` of omitted type, every `sa` and every array
\* literal of the AST, an array literal that is the last element of another
\* one included, so every lookup of code generation finds its entry.
C24_InferredTypesComplete ==
    (analyzer_pc = "done" /\ ~analyzer_has_error)
        => \A i \in DOMAIN ast : LookupsOfStmt(ast[i]) \subseteq DOMAIN inferred_types

\* the array literal the last step analyzed as a statement of its own
LiteralAnalyzed ==
    /\ Analyzed /\ last.stmt.k = "ExprS" /\ last.stmt.expr.k = "Array"
    /\ Len(last.stmt.expr.elements) >= 2

\* element i of the literal is an identifier no scope declares
Undeclared(i) ==
    LET e == last.stmt.expr.elements[i]
    IN  e.k = "Identifier" /\ ~lookup_symbol(symbol_table, e.token.lexeme).some

\* element i has a type that is not assignment compatible with the type of
\* the first element
Incompatible(i) ==
    LET first == analyze_expression(AState, last.stmt.expr.elements[1])
        elem == analyze_expression(AState, last.stmt.expr.elements[i])
    IN  /\ first.res = "Ok" /\ elem.res = "Ok"
        /\ is_assignment_compatible(elem.v, first.v) # "Ok"

\* C30: an array literal of two or more elements with an undeclared
\* identifier or an incompatible value in any position, the last included,
\* is refused with a diagnostic.
C30_EveryElementChecked ==
    ( /\ LiteralAnalyzed
      /\ \E i \in 1..Len(last.stmt.expr.elements) : Undeclared(i) \/ Incompatible(i) )
    => (last.res = "Err" /\ analyzer_has_error)

(***************************************************************************)
(*          The parser on streams with and without errors                  *)
(***************************************************************************)

MaxIdPieces == 3

\* pieces of a module, written in the source language
IdPieces ==
    { \* ang x = a.b;
      <<Tk("Ang", "ang"), Tk("Identifier", "x"), Tk("Equal", "="),
        Tk("Identifier", "a"), Tk("Dot", "."), Tk("Identifier", "b"),
        Tk("SemiColon", ";")>>,
      \* ang = 1;
      <<Tk("Ang", "ang"), Tk("Equal", "="), Tk("IntLit", "1"), Tk("SemiColon", ";")>>,
      \* x + [1, ;
      <<Tk("Identifier", "x"), Tk("Plus", "+"), Tk("LeftBracket", "["),
        Tk("IntLit", "1"), Tk("Comma", ","), Tk("SemiColon", ";")>>,
      \* x;
      <<Tk("Identifier", "x"), Tk("SemiColon", ";")>>,
      \* a.1;
      <<Tk("Identifier", "a"), Tk("Dot", "."), Tk("IntLit", "1"),
        Tk("SemiColon", ";")>>,
      \* paraan f() {
      <<Tk("Paraan", "paraan"), Tk("Identifier", "f"), Tk("LeftParen", "("),
        Tk("RightParen", ")"), Tk("LeftBrace", "{")>>,
      \* }
      <<Tk("RightBrace", "}")>>,
      \* bagay B {
      <<Tk("Bagay", "bagay"), Tk("Identifier", "B"), Tk("LeftBrace", "{")>>,
      \* paraan f(
      <<Tk("Paraan", "paraan"), Tk("Identifier", "f"), Tk("LeftParen", "(")>>,
      \* x
      <<Tk("Identifier", "x")>>,
      \* itupad B {
      <<Tk("Itupad", "itupad"), Tk("Identifier", "B"), Tk("LeftBrace", "{")>>,
      \* *p = v;
      <<Tk("Star", "*"), Tk("Identifier", "p"), Tk("Equal", "="),
        Tk("Identifier", "v"), Tk("SemiColon", ";")>>,
      \* &a + b;
      <<Tk("Amper", "&"), Tk("Identifier", "a"), Tk("Plus", "+"),
        Tk("Identifier", "b"), Tk("SemiColon", ";")>>,
      \* &maiba a + b;
      <<Tk("Amper", "&"), Tk("Maiba", "maiba"), Tk("Identifier", "a"),
        Tk("Plus", "+"), Tk("Identifier", "b"), Tk("SemiColon", ";")>> }

IdStreams ==
    {Append(Concat(pieces), Tk("Eof", "Eof")) : pieces \in SeqsUpTo(IdPieces, MaxIdPieces)}

InitIds ==
    /\ source_code = <<>>
    /\ tokens \in IdStreams
    /\ ast = <<>>
    /\ symbol_table = <<EmptyMap>>
    /\ type_table = EmptyMap
    /\ inferred_types = EmptyMap
    /\ declared_array_types = <<>>
    /\ start = 0 /\ current = 0 /\ line = 1 /\ column = 1 /\ start_column = 1
    /\ lexer_has_error = FALSE /\ lexer_pc = "done"
    /\ ParserNew
    /\ AnalyzerIdle /\ DriverIdle

SpecIds == InitIds /\ [][NextParse]_vars

\* the expressions of the fields of a record literal
RECURSIVE FieldExprs(_)
FieldExprs(fields) ==
    IF fields = <<>> THEN <<>> ELSE <<Head(fields)[2]>> \o FieldExprs(Tail(fields))

\* the conditions and blocks of the branches of a `kung`
RECURSIVE BranchNodes(_)
BranchNodes(branches) ==
    IF branches = <<>> THEN <<>>
    ELSE (IF Head(branches).condition.some THEN <<Head(branches).condition.v>>
          ELSE <<>>)
         \o <<Head(branches).block>> \o BranchNodes(Tail(branches))

\* the nodes a node holds
Children(n) ==
    CASE n.k \in {"Ang", "Ibalik"} -> <<n.rhs>>
      [] n.k = "ExprS" -> <<n.expr>>
      [] n.k \in {"Par", "Method"} -> <<n.block>>
      [] n.k = "Block" -> n.statements
      [] n.k = "ItupadBlock" -> n.methods
      [] n.k = "Itupad" -> <<n.itupad_block>>
      [] n.k = "Sa" -> <<n.iterator, n.block>>
      [] n.k = "Kung" -> BranchNodes(n.branches)
      [] n.k = "Struct" -> <<n.callee>> \o FieldExprs(n.fields)
      [] n.k = "MagicFnCall" -> n.args
      [] n.k \in {"AddressOf", "MutableAddressOf"} -> <<n.of>>
      [] n.k = "Deref" -> <<n.right>>
      [] n.k = "Array" -> n.elements
      [] n.k \in {"MemberAccess", "ScopeResolution"} -> <<n.left>>
      [] n.k = "FnCall" -> <<n.callee>> \o n.args
      [] n.k \in {"Assign", "Binary"} -> <<n.left, n.right>>
      [] n.k \in {"RangeExclusive", "RangeInclusive"} -> <<n.start, n.end>>
      [] OTHER -> <<>>

\* the ids of a sequence of nodes and of the nodes they hold
RECURSIVE IdsOf(_)
IdsOf(nodes) ==
    IF nodes = <<>> THEN <<>>
    ELSE <<Head(nodes).id>> \o IdsOf(Children(Head(nodes))) \o IdsOf(Tail(nodes))

NoIdTwice(ids) == \A i, j \in 1..Len(ids) : i # j => ids[i] # ids[j]

\* C25: no two nodes of the AST parse() stores carry the same id, also after
\* error recovery discarded partially built nodes; the counter is above every
\* id it gave out and never decreases.
C25_NodeIdsUnique ==
    /\ [](/\ NoIdTwice(IdsOf(ast))
          /\ \A i \in 1..Len(IdsOf(ast)) : IdsOf(ast)[i] < ast_id)
    /\ [][ast_id' >= ast_id]_vars

\* parse() returned a statement stored after a recovery that discarded ids
C25_Witness ==
    /\ parser_pc = "done" /\ parser_has_error
    /\ Len(IdsOf(ast)) >= 3 /\ Len(IdsOf(ast)) < ast_id
    /\ \E i \in 1..Len(ast) : \E j \in 1..Len(IdsOf(ast)) :
           ast[i].id = ast_id - 1 /\ IdsOf(ast)[j] = 0

\* the stream is the one piece, and Eof
StreamIs(kinds) ==
    /\ Len(tokens) = Len(kinds) + 1
    /\ \A i \in 1..Len(kinds) : tokens[i].kind = kinds[i]

\* the input ends inside a record declaration or a parameter list, or with a
\* statement that has no `;`
EndsUnfinished ==
    \/ StreamIs(<<"Bagay", "Identifier", "LeftBrace">>)
    \/ StreamIs(<<"Paraan", "Identifier", "LeftParen">>)
    \/ StreamIs(<<"Identifier">>)

\* C26: parse() returns on every Eof-terminated stream without aborting the
\* process; a `{` of a record declaration or a `(` of a parameter list left
\* open, or a last statement without its `;`, at the end of the input is a
\* diagnostic that sets has_error.
C26_ParseNeverAborts ==
    /\ parser_pc # "panic"
    /\ (parser_pc # "parsing" /\ EndsUnfinished)
           => (parser_pc = "done" /\ parser_has_error)

\* C27: parse() terminates on every finite Eof-terminated stream: it never
\* reports diagnostics forever at one token, as between two diagnostics the
\* position in the stream strictly increases, for the recovery of parse() and
\* for the recovery inside an `itupad` block, also when the token in error
\* is a keyword that starts a statement.
C27_ParseTerminates ==
    /\ [](parser_pc # "hang")
    /\ [][parser_shown' > parser_shown => parser_current' > parser_current]_vars

\* An expression with prefix operators, without ids and positions
RECURSIVE PrefixShape(_)
PrefixShape(expr) ==
    CASE expr.k \in {"IntLit", "Identifier"} -> Leaf(expr.token.lexeme)
      [] expr.k = "Binary" ->
            Node(expr.op.lexeme, PrefixShape(expr.left), PrefixShape(expr.right))
      [] expr.k = "Assign" ->
            Node("=", PrefixShape(expr.left), PrefixShape(expr.right))
      [] expr.k = "Deref" -> [prefix |-> "*", operand |-> PrefixShape(expr.right)]
      [] expr.k = "AddressOf" -> [prefix |-> "&", operand |-> PrefixShape(expr.of)]
      [] expr.k = "MutableAddressOf" ->
            [prefix |-> "&maiba", operand |-> PrefixShape(expr.of)]
      [] OTHER -> [other |-> expr.k]

Prefix(op, operand) == [prefix |-> op, operand |-> operand]

\* the first statement parse() stored is an expression statement of this shape
FirstParsedAs(shape) ==
    /\ Len(ast) >= 1 /\ ast[1].k = "ExprS" /\ PrefixShape(ast[1].expr) = shape

\* the stream starts with the tokens of these lexemes
StartsWith(lexemes) ==
    /\ Len(tokens) > Len(lexemes)
    /\ \A i \in 1..Len(lexemes) : tokens[i].lexeme = lexemes[i]

\* C28: the operand of a prefix `*`, `&` or `&maiba` is a primary
\* expression, and an infix operator after it applies to the whole prefix
\* expression: `*p = v` is an assignment to the dereference of p, and
\* `&a + b` is the sum of the address of a and b.
C28_PrefixBindsTighter ==
    /\ (parser_pc = "done" /\ StartsWith(<<"*", "p", "=", "v", ";">>))
           => FirstParsedAs(Node("=", Prefix("*", Leaf("p")), Leaf("v")))
    /\ (parser_pc = "done" /\ StartsWith(<<"&", "a", "+", "b", ";">>))
           => FirstParsedAs(Node("+", Prefix("&", Leaf("a")), Leaf("b")))
    /\ (parser_pc = "done" /\ StartsWith(<<"&", "maiba", "a", "+", "b", ";">>))
           => FirstParsedAs(Node("+", Prefix("&maiba", Leaf("a")), Leaf("b")))

\* C29: analyze() returns on every AST without aborting the process: a plain
\* string literal, and an assignment or a `&maiba` whose target names a
\* function or a record, end in a type or in a diagnostic.
C29_AnalyzeNeverAborts ==
    analyzer_pc # "panic" /\ last.res # "Panic"

====
